---- MODULE Spec2Model ----
(***************************************************************************)
(* Letterboxd Mirror: the template engine (template-engine.ts), the diary  *)
(* accessors (notes/template.ts) and the reconciliation logic of           *)
(* notes/sync.ts (syncDiary, findMatchingNote, updateNoteFrontmatter,      *)
(* importFromCSV), modelled over character strings.                        *)
(*                                                                         *)
(* Strings are TLA+ strings; a character is a string of length 1.          *)
(* Positions are 1-based; 0 stands for "no match".                         *)
(***************************************************************************)
EXTENDS Integers, Sequences, FiniteSets, TLC

\* ------------------------------------------------------------------------
\* Characters and the JavaScript string primitives the code uses
\* ------------------------------------------------------------------------

\* s.substring(i - 1, j), clamped to the string like JavaScript's
Slice(s, i, j) ==
  LET a == IF i < 1 THEN 1 ELSE i
      b == IF j > Len(s) THEN Len(s) ELSE j
  IN IF a > b THEN "" ELSE SubSeq(s, a, b)

\* s.charAt(i - 1)
At(s, i) == IF i < 1 \/ i > Len(s) THEN "" ELSE SubSeq(s, i, i)

\* \s of a JavaScript regular expression, and what String.trim strips
WhiteSpace == {" ", "\n", "\t", "\r"}

Digits == {"0", "1", "2", "3", "4", "5", "6", "7", "8", "9"}

\* \w of a JavaScript regular expression
WordChars ==
  Digits \cup {"_"} \cup
  {"a", "b", "c", "d", "e", "f", "g", "h", "i", "j", "k", "l", "m",
   "n", "o", "p", "q", "r", "s", "t", "u", "v", "w", "x", "y", "z"} \cup
  {"A", "B", "C", "D", "E", "F", "G", "H", "I", "J", "K", "L", "M",
   "N", "O", "P", "Q", "R", "S", "T", "U", "V", "W", "X", "Y", "Z"}

\* Body applied to the value of v, which is computed first: a local constant
\* of the code
With(v, Body(_)) == CHOOSE r \in {Body(x) : x \in {v}} : TRUE

MinOf(S) == CHOOSE x \in S : \A y \in S : x <= y

MaxOf(S) == CHOOSE x \in S : \A y \in S : x >= y

Min2(a, b) == IF a < b THEN a ELSE b

\* s.startsWith(sub, i - 1)
StartsWithAt(s, sub, i) ==
  i >= 1 /\ i + Len(sub) - 1 <= Len(s) /\ SubSeq(s, i, i + Len(sub) - 1) = sub

\* the first position j in i..n at which sub (of length k) starts, 0 if none;
\* the positions are tried a stretch at a time
RECURSIVE FindFrom(_, _, _, _, _)
FindFrom(s, sub, i, n, k) ==
  IF i > n THEN 0
  ELSE With({j \in i..Min2(i + 31, n) : SubSeq(s, j, j + k - 1) = sub}, LAMBDA C :
         IF C # {} THEN MinOf(C) ELSE FindFrom(s, sub, i + 32, n, k))

\* s.indexOf(sub, i - 1) + 1
IndexOfFrom(s, sub, i) ==
  IF sub = "" THEN (IF i > Len(s) THEN Len(s) + 1 ELSE i)
  ELSE FindFrom(s, sub, IF i < 1 THEN 1 ELSE i, Len(s) - Len(sub) + 1, Len(sub))

IndexOf(s, sub) == IndexOfFrom(s, sub, 1)

Includes(s, sub) == IndexOf(s, sub) # 0

\* s.substring(i - 1)
Substring(s, i) == Slice(s, i, Len(s))

\* the first position >= i whose character is not in the class, Len(s) + 1 if none
RECURSIVE SkipClass(_, _, _)
SkipClass(s, i, class) ==
  IF i > Len(s) THEN Len(s) + 1
  ELSE IF i < 1 \/ SubSeq(s, i, i) \notin class THEN i
  ELSE With({j \in i..Min2(i + 7, Len(s)) : SubSeq(s, j, j) \notin class}, LAMBDA C :
         IF C # {} THEN MinOf(C) ELSE SkipClass(s, i + 8, class))

\* the first position >= i whose character is in the class, Len(s) + 1 if none
RECURSIVE SkipUntilClass(_, _, _)
SkipUntilClass(s, i, class) ==
  IF i < 1 THEN SkipUntilClass(s, 1, class)
  ELSE IF i > Len(s) THEN Len(s) + 1
  ELSE With({j \in i..Min2(i + 15, Len(s)) : SubSeq(s, j, j) \in class}, LAMBDA C :
         IF C # {} THEN MinOf(C) ELSE SkipUntilClass(s, i + 16, class))

\* the last position <= i whose character is not in the class, 0 if none
RECURSIVE SkipClassBack(_, _, _)
SkipClassBack(s, i, class) ==
  IF i < 1 THEN 0
  ELSE IF SubSeq(s, i, i) \notin class THEN i
  ELSE SkipClassBack(s, i - 1, class)

\* s with the characters of the class stripped from both ends
Strip(s, class) ==
  With(SkipClass(s, 1, class), LAMBDA a :
    IF a > Len(s) THEN "" ELSE SubSeq(s, a, SkipClassBack(s, Len(s), class)))

\* s.trim()
Trim(s) == Strip(s, WhiteSpace)

\* s.toLowerCase()
LowerOf(c) ==
  CASE c = "A" -> "a" [] c = "B" -> "b" [] c = "C" -> "c" [] c = "D" -> "d"
    [] c = "E" -> "e" [] c = "F" -> "f" [] c = "G" -> "g" [] c = "H" -> "h"
    [] c = "I" -> "i" [] c = "J" -> "j" [] c = "K" -> "k" [] c = "L" -> "l"
    [] c = "M" -> "m" [] c = "N" -> "n" [] c = "O" -> "o" [] c = "P" -> "p"
    [] c = "Q" -> "q" [] c = "R" -> "r" [] c = "S" -> "s" [] c = "T" -> "t"
    [] c = "U" -> "u" [] c = "V" -> "v" [] c = "W" -> "w" [] c = "X" -> "x"
    [] c = "Y" -> "y" [] c = "Z" -> "z" [] OTHER -> c

UpperCase ==
  {"A", "B", "C", "D", "E", "F", "G", "H", "I", "J", "K", "L", "M",
   "N", "O", "P", "Q", "R", "S", "T", "U", "V", "W", "X", "Y", "Z"}

RECURSIVE ToLowerCase(_)
ToLowerCase(s) ==
  With(SkipUntilClass(s, 1, UpperCase), LAMBDA n :
    IF n > Len(s) THEN s
    ELSE SubSeq(s, 1, n - 1) \o LowerOf(SubSeq(s, n, n))
         \o ToLowerCase(SubSeq(s, n + 1, Len(s))))

\* s.split("\n")
RECURSIVE Split(_)
Split(s) ==
  With(IndexOf(s, "\n"), LAMBDA n :
    IF n = 0 THEN <<s>>
    ELSE <<SubSeq(s, 1, n - 1)>> \o Split(SubSeq(s, n + 1, Len(s))))

\* parts.join(sep)
RECURSIVE Join(_, _)
Join(parts, sep) ==
  IF parts = <<>> THEN ""
  ELSE IF Len(parts) = 1 THEN parts[1]
  ELSE parts[1] \o sep \o Join(Tail(parts), sep)

\* s.replace(/[class]/g, "")
RECURSIVE RemoveClass(_, _)
RemoveClass(s, class) ==
  With(SkipUntilClass(s, 1, class), LAMBDA n :
    IF n > Len(s) THEN s
    ELSE SubSeq(s, 1, n - 1) \o RemoveClass(SubSeq(s, n + 1, Len(s)), class))

\* s.replace(/"/g, '\\"')
RECURSIVE EscapeQuotes(_)
EscapeQuotes(s) ==
  With(IndexOf(s, "\""), LAMBDA n :
    IF n = 0 THEN s
    ELSE SubSeq(s, 1, n - 1) \o "\\\"" \o EscapeQuotes(SubSeq(s, n + 1, Len(s))))

DigitValue(c) ==
  CASE c = "0" -> 0 [] c = "1" -> 1 [] c = "2" -> 2 [] c = "3" -> 3 [] c = "4" -> 4
    [] c = "5" -> 5 [] c = "6" -> 6 [] c = "7" -> 7 [] c = "8" -> 8 [] OTHER -> 9

DigitChar(d) ==
  CASE d = 0 -> "0" [] d = 1 -> "1" [] d = 2 -> "2" [] d = 3 -> "3" [] d = 4 -> "4"
    [] d = 5 -> "5" [] d = 6 -> "6" [] d = 7 -> "7" [] d = 8 -> "8" [] OTHER -> "9"

\* String(n) of a non-negative integer
RECURSIVE NumToString(_)
NumToString(n) ==
  IF n < 10 THEN DigitChar(n) ELSE NumToString(n \div 10) \o DigitChar(n % 10)

\* parseInt(value, 10); NaN (no leading digits) is 0, which the only reader
\* (params.top > 0) treats alike
RECURSIVE DigitsValue(_, _)
DigitsValue(s, acc) ==
  IF s = "" \/ Head(s) \notin Digits THEN acc
  ELSE DigitsValue(Tail(s), acc * 10 + DigitValue(Head(s)))

ParseInt(s) ==
  With(Trim(s), LAMBDA t :
    With(IF t # "" /\ Head(t) = "-" THEN Tail(t) ELSE t, LAMBDA digits :
      IF digits = t THEN DigitsValue(digits, 0) ELSE 0 - DigitsValue(digits, 0)))

\* ------------------------------------------------------------------------
\* template-engine.ts: values and parameters
\* ------------------------------------------------------------------------

\* RawValue = string | number | boolean | string[]
Str(x) == [t |-> "string", s |-> x, n |-> 0, b |-> FALSE, a |-> <<>>]

Num(x) == [t |-> "number", s |-> "", n |-> x, b |-> FALSE, a |-> <<>>]

Bool(x) == [t |-> "boolean", s |-> "", n |-> 0, b |-> x, a |-> <<>>]

Arr(x) == [t |-> "array", s |-> "", n |-> 0, b |-> FALSE, a |-> x]

\* TemplateParams with every key absent (undefined reads as false, "" or no top)
NoParams ==
  [top |-> 0, yaml |-> FALSE, bullet |-> FALSE, quote |-> FALSE, bold |-> FALSE,
   italic |-> FALSE, skipEmpty |-> FALSE, prefix |-> "", suffix |-> "",
   link |-> FALSE, linkActors |-> FALSE, linkCharacters |-> FALSE]

\* One match of PARAM_PATTERN /(\w+)=(?:"([^"]*)"|(\S+))/ starting at p:
\* [ok, key, value, next]
NoParamMatch == [ok |-> FALSE, key |-> "", value |-> "", next |-> 0]

\* the value of a match whose key ends before q: quoted from v + 1 to the
\* next quote c, or bare from v to the next white space
ParamValueAt(s, p, q, v, c) ==
  IF At(s, v) = "\"" /\ c # 0
  THEN [ok |-> TRUE, key |-> Slice(s, p, q - 1),
        value |-> Slice(s, v + 1, c - 1), next |-> c + 1]
  ELSE IF v <= Len(s) /\ At(s, v) \notin WhiteSpace
  THEN With(SkipUntilClass(s, v, WhiteSpace), LAMBDA e :
         [ok |-> TRUE, key |-> Slice(s, p, q - 1),
          value |-> Slice(s, v, e - 1), next |-> e])
  ELSE NoParamMatch

ParamMatchAt(s, p) ==
  With(SkipClass(s, p, WordChars), LAMBDA q :
    IF q = p \/ At(s, q) # "=" THEN NoParamMatch
    ELSE ParamValueAt(s, p, q, q + 1, IndexOfFrom(s, "\"", q + 2)))

\* the switch of parseParams: unknown keys change nothing
BooleanParams ==
  {"yaml", "bullet", "quote", "bold", "italic", "skipEmpty", "link", "linkActors",
   "linkCharacters"}

SetParam(params, key, value) ==
  IF key = "top" THEN [params EXCEPT !.top = ParseInt(value)]
  ELSE IF key \in BooleanParams THEN [params EXCEPT ![key] = (value = "true")]
  ELSE IF key \in {"prefix", "suffix"} THEN [params EXCEPT ![key] = value]
  ELSE params

\* the first position >= i at which PARAM_PATTERN matches, 0 if none
\* the first match of PARAM_PATTERN at a position >= i, NoParamMatch if none
RECURSIVE NextParam(_, _)
NextParam(s, i) ==
  IF i > Len(s) THEN NoParamMatch
  ELSE With(ParamMatchAt(s, i), LAMBDA m :
         IF m.ok THEN m ELSE NextParam(s, i + 1))

RECURSIVE ParseParamsFrom(_, _, _)
ParseParamsFrom(s, i, params) ==
  With(NextParam(s, i), LAMBDA m :
    IF ~m.ok THEN params
    ELSE ParseParamsFrom(s, m.next, SetParam(params, m.key, m.value)))

\* parseParams(paramString); an undefined paramString is ""
parseParams(paramString) == ParseParamsFrom(paramString, 1, NoParams)

\* ------------------------------------------------------------------------
\* template-engine.ts: value formatting
\* ------------------------------------------------------------------------

isEmpty(value) ==
  CASE value.t = "array" -> Len(value.a) = 0
    [] value.t = "string" -> value.s = ""
    [] OTHER -> FALSE

wikiLink(s) == "[[" \o s \o "]]"

applyTextFormatting(str, params) ==
  With(IF params.bold THEN "**" \o str \o "**" ELSE str, LAMBDA b :
    IF params.italic THEN "*" \o b \o "*" ELSE b)

MapSeq(Op(_), seq) == [i \in 1..Len(seq) |-> Op(seq[i])]

\* one item of formatArray, before the items are joined
formatItem(item, params) ==
  With(IF params.link THEN wikiLink(item) ELSE item, LAMBDA linked :
    IF params.yaml
    THEN IF params.bullet THEN "  - " \o linked
         ELSE "\"" \o EscapeQuotes(linked) \o "\""
    ELSE With(IF params.bold \/ params.italic
              THEN applyTextFormatting(linked, params) ELSE linked,
              LAMBDA styled : IF params.bullet THEN "- " \o styled ELSE styled))

formatArray(arr, params) ==
  With(IF params.top > 0 /\ params.top < Len(arr)
       THEN SubSeq(arr, 1, params.top) ELSE arr, LAMBDA topped :
    With(Join([i \in 1..Len(topped) |-> formatItem(topped[i], params)],
              IF params.bullet THEN "\n" ELSE ", "), LAMBDA joined :
      IF params.yaml /\ ~params.bullet THEN "[" \o joined \o "]" ELSE joined))

QuoteLine(line) == "> " \o line

formatString(str, params) ==
  IF params.yaml THEN "\"" \o EscapeQuotes(str) \o "\""
  ELSE With(applyTextFormatting(str, params), LAMBDA styled :
         With(IF params.quote
              THEN Join(MapSeq(QuoteLine, Split(styled)), "\n") ELSE styled,
              LAMBDA quoted : IF params.link THEN wikiLink(quoted) ELSE quoted))

\* formatValue testing only the formatted result for emptiness
formatValueAfter(value, params) ==
  With(CASE value.t = "array" -> formatArray(value.a, params)
         [] value.t = "number" -> NumToString(value.n)
         [] value.t = "boolean" -> (IF value.b THEN "true" ELSE "false")
         [] OTHER -> formatString(value.s, params),
       LAMBDA result :
         IF result # "" \/ ~params.skipEmpty
         THEN params.prefix \o result \o params.suffix
         ELSE result)

formatValue(value, params) ==
  IF params.skipEmpty /\ isEmpty(value) THEN ""
  ELSE With(CASE value.t = "array" -> formatArray(value.a, params)
              [] value.t = "number" -> NumToString(value.n)
              [] value.t = "boolean" -> (IF value.b THEN "true" ELSE "false")
              [] OTHER -> formatString(value.s, params),
            LAMBDA result :
              IF result # "" \/ ~params.skipEmpty
              THEN params.prefix \o result \o params.suffix
              ELSE result)

isTruthy(value) ==
  CASE value.t = "array" -> Len(value.a) > 0
    [] value.t = "number" -> value.n # 0
    [] value.t = "boolean" -> value.b
    [] OTHER -> ToLowerCase(value.s) \notin {"", "false", "null", "undefined"}

\* ------------------------------------------------------------------------
\* notes/template.ts: the accessor table of a diary entry (LetterboxdEntry)
\* ------------------------------------------------------------------------

\* userRatingNo: number | null
NoRating == [isNull |-> TRUE, n |-> 0]

Rating(x) == [isNull |-> FALSE, n |-> x]

\* String.prototype.repeat
RECURSIVE Repeat(_, _)
Repeat(s, n) == IF n <= 0 THEN "" ELSE s \o Repeat(s, n - 1)

\* ratingToStars (letterboxd/parser.ts). "*" stands for the star U+2605; the
\* ratings of the records below are whole numbers, for which hasHalfStar is
\* false
ratingToStars(rating) == IF rating.isNull THEN "" ELSE Repeat("*", rating.n)

AccessorNames ==
  {"filmTitle", "filmYear", "userRatingNoOver5", "userRatingNoOver10",
   "userRatingStars", "watchedDate", "watchedDatetime", "rewatch", "link",
   "tmdbId", "posterUrl", "guid", "review", "pubDate", "containsSpoilers", "tags"}

LETTERBOXD_ACCESSORS(name, e) ==
  CASE name = "filmTitle" -> Str(e.filmTitle)
    [] name = "filmYear" -> Num(e.filmYear)
    [] name = "userRatingNoOver5" ->
         (IF e.userRatingNo.isNull THEN Str("") ELSE Num(e.userRatingNo.n))
    [] name = "userRatingNoOver10" ->
         (IF e.userRatingNo.isNull THEN Str("") ELSE Num(e.userRatingNo.n * 2))
    [] name = "userRatingStars" -> Str(e.userRatingStars)
    [] name = "watchedDate" -> Str(e.watchedDate)
    [] name = "watchedDatetime" ->
         Str(IF e.watchedDate # "" THEN e.watchedDate \o "T00:00" ELSE "")
    [] name = "rewatch" -> Bool(e.rewatch)
    [] name = "link" -> Str(e.link)
    [] name = "tmdbId" -> Str(e.tmdbId)
    [] name = "posterUrl" -> Str(e.posterUrl)
    [] name = "guid" -> Str(e.guid)
    [] name = "review" -> Str(e.review)
    [] name = "pubDate" -> Str(e.pubDate)
    [] name = "containsSpoilers" -> Bool(e.containsSpoilers)
    [] OTHER -> Arr(e.tags)

\* ------------------------------------------------------------------------
\* tmdb/api.ts and tmdb/template.ts: a movie and its accessor table
\* ------------------------------------------------------------------------

\* formatRuntime(minutes)
formatRuntime(minutes) ==
  IF minutes <= 0 THEN ""
  ELSE IF minutes \div 60 = 0 THEN NumToString(minutes % 60) \o "m"
  ELSE IF minutes % 60 = 0 THEN NumToString(minutes \div 60) \o "h"
  ELSE NumToString(minutes \div 60) \o "h " \o NumToString(minutes % 60) \o "m"

\* extractYear(dateStr); the release dates of the model start with four digits
extractYear(dateStr) == IF Len(dateStr) < 4 THEN 0 ELSE ParseInt(SubSeq(dateStr, 1, 4))

\* buildImageUrl(path, size); a null path is ""
buildImageUrl(path, size) ==
  IF path = "" THEN "" ELSE "https://image.tmdb.org/t/p/" \o size \o path

\* The TMDBMovie transformResponse builds from the response for the movie id:
\* [cast, characters] are sortedCast, and the response holds no overview, no
\* tagline, no backdrop, no company, no language and no collection.
transformResponse(id, title, releaseDate, runtime, imdbId, genres, directors, cast, characters, posterPath) ==
  [tmdbId |-> id, title |-> title, originalTitle |-> title, originalLanguage |-> "en",
   year |-> extractYear(releaseDate), releaseDate |-> releaseDate, runtime |-> runtime,
   runtimeFormatted |-> formatRuntime(runtime), overview |-> "", tagline |-> "",
   genres |-> genres, genreList |-> Join(genres, ", "), tmdbRating |-> 8,
   tmdbVoteCount |-> 100, budget |-> 0, revenue |-> 0, imdbId |-> imdbId,
   tmdbUrl |-> "https://www.themoviedb.org/movie/" \o NumToString(id),
   posterUrlXXS |-> buildImageUrl(posterPath, "w92"),
   posterUrlXS |-> buildImageUrl(posterPath, "w154"),
   posterUrlS |-> buildImageUrl(posterPath, "w185"),
   posterUrlM |-> buildImageUrl(posterPath, "w342"),
   posterUrlL |-> buildImageUrl(posterPath, "w500"),
   posterUrlXL |-> buildImageUrl(posterPath, "w780"),
   posterUrlOG |-> buildImageUrl(posterPath, "original"),
   backdropUrlS |-> "", backdropUrlM |-> "", backdropUrlL |-> "", backdropUrlOG |-> "",
   productionCompanies |-> <<>>, productionCompanyList |-> "",
   spokenLanguages |-> <<>>, spokenLanguageList |-> "", collection |-> "",
   cast |-> cast, characters |-> characters, directors |-> directors]

\* the numbers and the string arrays among the fields of a TMDBMovie
TmdbNumbers == {"tmdbId", "year", "runtime", "tmdbRating", "tmdbVoteCount", "budget", "revenue"}

TmdbArrays ==
  {"genres", "productionCompanies", "spokenLanguages", "cast", "characters", "directors"}

TmdbAccessorNames ==
  {"tmdbId", "imdbId", "tmdbUrl", "title", "originalTitle", "originalLanguage", "year",
   "releaseDate", "runtime", "runtimeFormatted", "overview", "tagline", "genres",
   "genreList", "tmdbRating", "tmdbVoteCount", "budget", "revenue", "posterUrlXXS",
   "posterUrlXS", "posterUrlS", "posterUrlM", "posterUrlL", "posterUrlXL", "posterUrlOG",
   "backdropUrlS", "backdropUrlM", "backdropUrlL", "backdropUrlOG", "productionCompanies",
   "productionCompanyList", "spokenLanguages", "spokenLanguageList", "collection", "cast",
   "characters", "directors"}

\* every accessor reads the field of its own name
TMDB_ACCESSORS(name, m) ==
  IF name \in TmdbNumbers THEN Num(m[name])
  ELSE IF name \in TmdbArrays THEN Arr(m[name])
  ELSE Str(m[name])

\* one role of handleCastWithRoles; a missing character is ""
CastRole(movie, i, params) ==
  With(IF i <= Len(movie.characters) THEN movie.characters[i] ELSE "", LAMBDA character :
    (IF params.linkActors THEN wikiLink(movie.cast[i]) ELSE movie.cast[i])
    \o " as "
    \o (IF params.linkCharacters /\ character # "" THEN wikiLink(character) ELSE character))

\* handleCastWithRoles; a top of 0 stands for no top
handleCastWithRoles(movie, params) ==
  With(IF params.top > 0 THEN Min2(params.top, Len(movie.cast)) ELSE Len(movie.cast),
       LAMBDA n :
         formatArray([i \in 1..n |-> CastRole(movie, i, params)],
                     [params EXCEPT !.top = 0, !.link = FALSE, !.linkActors = FALSE,
                                    !.linkCharacters = FALSE]))

\* ------------------------------------------------------------------------
\* template-engine.ts: the configuration of an engine. letterboxdEngine is
\* applied to diary entries and tmdbEngine to movies.
\* ------------------------------------------------------------------------

IsMovie(data) == "title" \in DOMAIN data

\* the keys of config.accessors
AccessorNamesOf(data) == IF IsMovie(data) THEN TmdbAccessorNames ELSE AccessorNames

\* accessors[name](data)
Accessors(name, data) ==
  IF IsMovie(data) THEN TMDB_ACCESSORS(name, data) ELSE LETTERBOXD_ACCESSORS(name, data)

\* The \w+ names every object literal inherits from Object.prototype:
\* specialHandlers[name] is a truthy value for them, also when specialHandlers
\* is the default {}.
ObjectPrototypeNames ==
  {"constructor", "toString", "toLocaleString", "valueOf", "hasOwnProperty",
   "isPrototypeOf", "propertyIsEnumerable", "__proto__", "__defineGetter__",
   "__defineSetter__", "__lookupGetter__", "__lookupSetter__"}

\* the names for which specialHandlers[name] is truthy
SpecialHandlerNames(data) ==
  ObjectPrototypeNames \cup (IF IsMovie(data) THEN {"castWithRoles"} ELSE {})

\* specialHandler(data, params) as the replacement text. Object(data), which
\* "constructor" calls, returns data, and that reads "[object Object]" as a
\* string; the call of another inherited name depends on "this" and no template
\* below names one outside a conditional.
SpecialHandlerResult(name, data, params) ==
  IF name = "castWithRoles" THEN handleCastWithRoles(data, params) ELSE "[object Object]"

\* the special-handler branch of substituteVariables
SpecialValue(name, data, params) ==
  With(SpecialHandlerResult(name, data, params), LAMBDA result :
    IF params.skipEmpty /\ result = "" THEN ""
    ELSE params.prefix \o result \o params.suffix)

\* ------------------------------------------------------------------------
\* template-engine.ts: createTemplateEngine
\* ------------------------------------------------------------------------

\* One match of CONDITIONAL_PATTERN /\{\{#if\s+(\w+)\}\}([\s\S]*?)\{\{\/if\}\}/
\* starting at p ("{{#if" is there): [ok, at, name, body, next]
NoCondMatch == [ok |-> FALSE, at |-> 0, name |-> "", body |-> "", next |-> 0]

\* the name runs from w to e - 1 and the body up to c - 1
CondMatchWith(s, p, w, e, c) ==
  IF w > p + 5 /\ e > w /\ StartsWithAt(s, "}}", e) /\ c # 0
  THEN [ok |-> TRUE, at |-> p, name |-> SubSeq(s, w, e - 1),
        body |-> SubSeq(s, e + 2, c - 1), next |-> c + 7]
  ELSE NoCondMatch

CondMatchAt(s, p) ==
  With(SkipClass(s, p + 5, WhiteSpace), LAMBDA w :
    With(SkipClass(s, w, WordChars), LAMBDA e :
      CondMatchWith(s, p, w, e, IndexOfFrom(s, "{{/if}}", e + 2))))

\* the first match of CONDITIONAL_PATTERN at a position >= i, NoCondMatch if none
RECURSIVE NextCond(_, _)
NextCond(s, i) ==
  With(IndexOfFrom(s, "{{#if", i), LAMBDA p :
    IF p = 0 THEN NoCondMatch
    ELSE With(CondMatchAt(s, p), LAMBDA m :
           IF m.ok THEN m ELSE NextCond(s, p + 1)))

RECURSIVE ProcessConditionalsFrom(_, _, _)
ProcessConditionalsFrom(s, i, data) ==
  With(NextCond(s, i), LAMBDA m :
    IF ~m.ok THEN Substring(s, i)
    ELSE Slice(s, i, m.at - 1)
         \o (IF m.name \in SpecialHandlerNames(data) THEN m.body
             ELSE IF m.name \in AccessorNamesOf(data)
                     /\ isTruthy(Accessors(m.name, data))
             THEN m.body ELSE "")
         \o ProcessConditionalsFrom(s, m.next, data))

processConditionals(template, data) == ProcessConditionalsFrom(template, 1, data)

\* One match of /\{\{(\w+)(\s+[^}]+)?\}\}/ (minParams = 1,
\* VARIABLE_WITH_PARAMS_PATTERN) or of /\{\{(\w+)(?:\s+[^}]*)?\}\}/
\* (minParams = 0, sync.ts) starting at p ("{{" is there):
\* [ok, at, name, params, next]
NoVarMatch == [ok |-> FALSE, at |-> 0, name |-> "", params |-> "", next |-> 0]

\* the name ends before e and the parameters before r
VarMatchWith(s, p, e, r, minParams) ==
  IF e = p + 2 THEN NoVarMatch
  ELSE IF StartsWithAt(s, "}}", e)
  THEN [ok |-> TRUE, at |-> p, name |-> SubSeq(s, p + 2, e - 1), params |-> "",
        next |-> e + 2]
  ELSE IF At(s, e) \in WhiteSpace /\ r - e >= 1 + minParams /\ StartsWithAt(s, "}}", r)
  THEN [ok |-> TRUE, at |-> p, name |-> SubSeq(s, p + 2, e - 1),
        params |-> SubSeq(s, e, r - 1), next |-> r + 2]
  ELSE NoVarMatch

VarMatchAt(s, p, minParams) ==
  With(SkipClass(s, p + 2, WordChars), LAMBDA e :
    VarMatchWith(s, p, e, SkipUntilClass(s, e, {"}"}), minParams))

\* the first match of the variable pattern at a position >= i, NoVarMatch if none
RECURSIVE NextVar(_, _, _)
NextVar(s, i, minParams) ==
  With(IndexOfFrom(s, "{{", i), LAMBDA p :
    IF p = 0 THEN NoVarMatch
    ELSE With(VarMatchAt(s, p, minParams), LAMBDA m :
           IF m.ok THEN m ELSE NextVar(s, p + 1, minParams)))

RECURSIVE SubstituteVariablesFrom(_, _, _)
SubstituteVariablesFrom(s, i, data) ==
  With(NextVar(s, i, 1), LAMBDA m :
    IF ~m.ok THEN Substring(s, i)
    ELSE Slice(s, i, m.at - 1)
         \o (IF m.name \in SpecialHandlerNames(data)
             THEN SpecialValue(m.name, data, parseParams(m.params))
             ELSE IF m.name \in AccessorNamesOf(data)
             THEN formatValue(Accessors(m.name, data), parseParams(m.params))
             ELSE SubSeq(s, m.at, m.next - 1))
         \o SubstituteVariablesFrom(s, m.next, data))

substituteVariables(template, data) == SubstituteVariablesFrom(template, 1, data)

\* render of the engine, exported as renderTemplate
renderTemplate(template, entry) ==
  substituteVariables(processConditionals(template, entry), entry)

\* the characters / \ : * ? " < > |
InvalidFilenameChars == {"/", "\\", ":", "*", "?", "\"", "<", ">", "|"}

\* s.replace(/^\.+|\.+$/g, "")
StripDots(s) == Strip(s, {"."})

generateFilename(template, entry) ==
  StripDots(Trim(RemoveClass(substituteVariables(template, entry), InvalidFilenameChars)))

\* render of tmdbEngine, exported as renderTMDBTemplate
renderTMDBTemplate(template, movie) ==
  substituteVariables(processConditionals(template, movie), movie)

\* generateFilename of tmdbEngine, exported as generateTMDBFilename
generateTMDBFilename(filenameTemplate, movie) ==
  StripDots(Trim(RemoveClass(substituteVariables(filenameTemplate, movie),
                             InvalidFilenameChars)))

\* ------------------------------------------------------------------------
\* notes/sync.ts and utils/frontmatter.ts: the regular expressions
\* ------------------------------------------------------------------------

\* what "." does not match, and where ^ and $ match under the m flag
LineTerminators == {"\n", "\r"}

AtLineStart(s, p) == p = 1 \/ At(s, p - 1) \in LineTerminators

\* content.match(/^---\n([\s\S]*?)\n---/): [ok, fm, len], fm the captured group
\* and len the length of the whole match
FrontmatterMatch(content) ==
  With(IF StartsWithAt(content, "---\n", 1) THEN IndexOfFrom(content, "\n---", 5) ELSE 0,
       LAMBDA c :
         IF c # 0 THEN [ok |-> TRUE, fm |-> Slice(content, 5, c - 1), len |-> c + 3]
         ELSE [ok |-> FALSE, fm |-> "", len |-> 0])

\* the first position >= i at the start of a line at which head starts, 0 if none
RECURSIVE NextLineWith(_, _, _)
NextLineWith(s, head, i) ==
  With(IndexOfFrom(s, head, i), LAMBDA p :
    IF p = 0 THEN 0
    ELSE IF AtLineStart(s, p) THEN p
    ELSE NextLineWith(s, head, p + 1))

\* the key createFrontmatterLineRegex takes from a template line
LineKey(templateLine) == Trim(Slice(templateLine, 1, IndexOf(templateLine, ":") - 1))

\* frontmatter.match(createFrontmatterLineRegex(templateLine)), the regex being
\* /^key:\s*(.*)$/m: [ok, start, end, value]; \s* runs over line breaks
NoLineMatch == [ok |-> FALSE, start |-> 0, end |-> 0, value |-> ""]

\* the match that starts at p, its group at v
LineRegexMatchAt(frontmatter, p, v) ==
  With(SkipUntilClass(frontmatter, v, LineTerminators), LAMBDA e :
    [ok |-> TRUE, start |-> p, end |-> e - 1, value |-> Slice(frontmatter, v, e - 1)])

LineRegexMatch(frontmatter, templateLine) ==
  IF IndexOf(templateLine, ":") = 0 THEN NoLineMatch
  ELSE With(LineKey(templateLine) \o ":", LAMBDA head :
         With(NextLineWith(frontmatter, head, 1), LAMBDA p :
           IF p = 0 THEN NoLineMatch
           ELSE LineRegexMatchAt(frontmatter, p,
                                 SkipClass(frontmatter, p + Len(head), WhiteSpace))))

\* content.match(createFrontmatterKeyRegex(key)), the regex being
\* /^key:\s*(.+)$/m, at a line start p where "key:" is: [ok, value]. When only
\* white space follows the key up to the end of the content, \s* gives back
\* down to the last character that "." matches.
NoKeyMatch == [ok |-> FALSE, value |-> ""]

\* the match whose key ends before v and whose white space ends before w
KeyRegexMatchWith(content, v, w) ==
  IF w <= Len(content)
  THEN [ok |-> TRUE,
        value |-> SubSeq(content, w, SkipUntilClass(content, w, LineTerminators) - 1)]
  ELSE With(SkipClassBack(content, Len(content), LineTerminators), LAMBDA b :
         IF b >= v THEN [ok |-> TRUE, value |-> SubSeq(content, b, b)] ELSE NoKeyMatch)

KeyRegexMatchAt(content, key, p) ==
  KeyRegexMatchWith(content, p + Len(key) + 1,
                    SkipClass(content, p + Len(key) + 1, WhiteSpace))

RECURSIVE KeyRegexMatchFrom(_, _, _)
KeyRegexMatchFrom(content, key, i) ==
  With(NextLineWith(content, key \o ":", i), LAMBDA p :
    IF p = 0 THEN NoKeyMatch
    ELSE With(KeyRegexMatchAt(content, key, p), LAMBDA m :
           IF m.ok THEN m ELSE KeyRegexMatchFrom(content, key, p + 1)))

createFrontmatterKeyRegex(content, key) == KeyRegexMatchFrom(content, key, 1)

\* note.content.match(/^film:\s*"?\[\[([^\]]+)\]\]"?/m) at a line start p where
\* "film:" is: [ok, title]
NoFilmMatch == [ok |-> FALSE, title |-> ""]

\* the match whose "[[" is at b and whose title ends before r
FilmMatchWith(content, b, r) ==
  IF StartsWithAt(content, "[[", b) /\ r > b + 2 /\ StartsWithAt(content, "]]", r)
  THEN [ok |-> TRUE, title |-> SubSeq(content, b + 2, r - 1)]
  ELSE NoFilmMatch

FilmMatchAt(content, p) ==
  With(SkipClass(content, p + 5, WhiteSpace), LAMBDA w :
    With(IF At(content, w) = "\"" THEN w + 1 ELSE w, LAMBDA b :
      FilmMatchWith(content, b, SkipUntilClass(content, b + 2, {"]"}))))

RECURSIVE FilmMatchFrom(_, _)
FilmMatchFrom(content, i) ==
  With(NextLineWith(content, "film:", i), LAMBDA p :
    IF p = 0 THEN NoFilmMatch
    ELSE With(FilmMatchAt(content, p), LAMBDA m :
           IF m.ok THEN m ELSE FilmMatchFrom(content, p + 1)))

FilmMatch(content) == FilmMatchFrom(content, 1)

\* s.replace(/\s*\(\d{4}\)$/, "")
StripYear(s) ==
  With(Len(s), LAMBDA n :
    IF n >= 6 /\ SubSeq(s, n, n) = ")" /\ SubSeq(s, n - 5, n - 5) = "("
       /\ \A k \in (n - 4)..(n - 1) : SubSeq(s, k, k) \in Digits
    THEN Slice(s, 1, SkipClassBack(s, n - 6, WhiteSpace))
    ELSE s)

\* title.toLowerCase().trim().replace(/\s*\(\d{4}\)$/, "")
NormalizeTitle(title) == StripYear(Trim(ToLowerCase(title)))

\* The regular expression filenameTemplateToRegex builds, as its sequence of
\* tokens between ^ and $: "(.+)" for a {{...}} placeholder, the character
\* itself (escaped in the source) otherwise.
RECURSIVE FilenameRegexFrom(_, _)
FilenameRegexFrom(template, i) ==
  IF i > Len(template) THEN <<>>
  ELSE With(IF StartsWithAt(template, "{{", i)
            THEN SkipUntilClass(template, i + 2, {"}"}) ELSE 0, LAMBDA r :
         IF r > i + 2 /\ StartsWithAt(template, "}}", r)
         THEN <<"(.+)">> \o FilenameRegexFrom(template, r + 2)
         ELSE <<SubSeq(template, i, i)>> \o FilenameRegexFrom(template, i + 1))

filenameTemplateToRegex(template) == FilenameRegexFrom(template, 1)

\* regex.test(s) for such a token sequence, from token ti and position si
RECURSIVE RegexTestFrom(_, _, _, _)
RegexTestFrom(regex, ti, s, si) ==
  IF ti > Len(regex) THEN si = Len(s) + 1
  ELSE IF regex[ti] = "(.+)"
    THEN \E k \in si..Len(s) :
           /\ \A j \in si..k : At(s, j) \notin LineTerminators
           /\ RegexTestFrom(regex, ti + 1, s, k + 1)
  ELSE si <= Len(s) /\ At(s, si) = regex[ti] /\ RegexTestFrom(regex, ti + 1, s, si + 1)

RegexTest(regex, s) == RegexTestFrom(regex, 1, s, 1)

\* The replacement text of String.prototype.replace(regex, newSubstr): $$, $&,
\* $`, $' and $1 / $01 (the regex has one group) are expanded, any other
\* character is copied.
\* what the "$" at d expands to and how many characters of repl it takes
DollarAt(repl, d, matched, before, after, group1) ==
  With(Slice(repl, d + 1, d + 1), LAMBDA c :
    IF c = "$" THEN [text |-> "$", len |-> 2]
    ELSE IF c = "&" THEN [text |-> matched, len |-> 2]
    ELSE IF c = "`" THEN [text |-> before, len |-> 2]
    ELSE IF c = "'" THEN [text |-> after, len |-> 2]
    ELSE IF Slice(repl, d + 1, d + 2) = "01" THEN [text |-> group1, len |-> 3]
    ELSE IF c = "1" THEN [text |-> group1, len |-> 2]
    ELSE [text |-> "$", len |-> 1])

RECURSIVE GetSubstitution(_, _, _, _, _)
GetSubstitution(repl, matched, before, after, group1) ==
  With(IndexOf(repl, "$"), LAMBDA d :
    IF d = 0 THEN repl
    ELSE With(DollarAt(repl, d, matched, before, after, group1), LAMBDA x :
           SubSeq(repl, 1, d - 1) \o x.text
           \o GetSubstitution(Substring(repl, d + x.len), matched, before, after, group1)))

\* frontmatter.replace(lineRegex, newLine), m being the match of lineRegex
ReplaceLine(frontmatter, m, newLine) ==
  With(Slice(frontmatter, 1, m.start - 1), LAMBDA before :
    With(Substring(frontmatter, m.end + 1), LAMBDA after :
      before
      \o GetSubstitution(newLine, Slice(frontmatter, m.start, m.end), before, after, m.value)
      \o after))

\* ------------------------------------------------------------------------
\* notes/sync.ts: the merge of a record into an existing note
\* ------------------------------------------------------------------------

TAGS_PENDING_FROM_RSS == "_pending_csv_import"

DATE_VARIABLES == {"watchedDate", "watchedDatetime", "pubDate"}

IMMUTABLE_VARIABLES == {"guid", "tmdbId", "posterUrl"}

\* the characters of /^["'[\]]+|["'[\]]+$/g
QuotesAndBrackets == {"\"", "'", "[", "]"}

normalizeValue(value) == Trim(Strip(value, QuotesAndBrackets))

isEmptyValue(value) == normalizeValue(value) \in {"", "[]", "\"\""}

\* the comparisons of shouldUpdateValue on the normalized values
valuesDiffer(varName, normalizedNew, normalizedExisting) ==
  IF normalizedNew = normalizedExisting THEN FALSE
  ELSE IF varName \in DATE_VARIABLES
          /\ Slice(normalizedNew, 1, 10) = Slice(normalizedExisting, 1, 10) THEN FALSE
  ELSE TRUE

shouldUpdateValue(varName, newValue, existingValue) ==
  IF varName \in IMMUTABLE_VARIABLES THEN FALSE
  ELSE IF varName = "tags" /\ Includes(existingValue, TAGS_PENDING_FROM_RSS) THEN TRUE
  ELSE IF isEmptyValue(newValue) THEN FALSE
  ELSE valuesDiffer(varName, normalizeValue(newValue), normalizeValue(existingValue))

\* trimmedLine.match(/\{\{(\w+)(?:\s+[^}]*)?\}\}/): [ok, name, ...]
VarMatch(trimmedLine) == NextVar(trimmedLine, 1, 0)

\* the value portion of a rendered line (after the first colon)
NewValueOf(newLine) ==
  With(IndexOf(newLine, ":"), LAMBDA colonIdx :
    IF colonIdx # 0 THEN Trim(Substring(newLine, colonIdx + 1)) ELSE "")

\* One turn of the loop of updateNoteFrontmatter over the template lines: the
\* frontmatter after the template line has been considered.
\* the end of the loop body, from the rendering of the new line
UpdateMatchedLine(frontmatter, varName, existingMatch, newLine) ==
  IF ~shouldUpdateValue(varName, NewValueOf(newLine), existingMatch.value)
  THEN frontmatter
  ELSE ReplaceLine(frontmatter, existingMatch, newLine)

UpdateLine(frontmatter, templateLine, entry) ==
  With(Trim(templateLine), LAMBDA trimmedLine :
    IF trimmedLine = "" \/ ~Includes(trimmedLine, ":") THEN frontmatter
    ELSE With(VarMatch(trimmedLine), LAMBDA varMatch :
           IF ~varMatch.ok THEN frontmatter
           ELSE With(LineRegexMatch(frontmatter, trimmedLine), LAMBDA existingMatch :
                  IF ~existingMatch.ok THEN frontmatter
                  ELSE UpdateMatchedLine(frontmatter, varMatch.name, existingMatch,
                                         renderTemplate(trimmedLine, entry)))))

RECURSIVE UpdateLines(_, _, _)
UpdateLines(frontmatter, templateLines, entry) ==
  IF templateLines = <<>> THEN frontmatter
  ELSE With(UpdateLine(frontmatter, Head(templateLines), entry), LAMBDA updated :
         UpdateLines(updated, Tail(templateLines), entry))

\* updateNoteFrontmatter putting a line break between the closing delimiter and
\* the body
updateNoteFrontmatterBreak(content, entry, settings) ==
  With(FrontmatterMatch(content), LAMBDA fmMatch :
    IF ~fmMatch.ok THEN content
    ELSE With(FrontmatterMatch(settings.noteTemplate), LAMBDA templateFmMatch :
           IF ~templateFmMatch.ok THEN content
           ELSE "---\n" \o UpdateLines(fmMatch.fm, Split(templateFmMatch.fm), entry)
                \o "\n---\n" \o Substring(content, fmMatch.len + 1)))

updateNoteFrontmatter(content, entry, settings) ==
  With(FrontmatterMatch(content), LAMBDA fmMatch :
    IF ~fmMatch.ok THEN content
    ELSE With(FrontmatterMatch(settings.noteTemplate), LAMBDA templateFmMatch :
           IF ~templateFmMatch.ok THEN content
           ELSE "---\n" \o UpdateLines(fmMatch.fm, Split(templateFmMatch.fm), entry)
                \o "\n---" \o Substring(content, fmMatch.len + 1)))

\* ------------------------------------------------------------------------
\* notes/sync.ts: existing notes and the entry matcher
\* ------------------------------------------------------------------------

\* guid: string | null
NoGuid == [isNull |-> TRUE, s |-> ""]

\* ExistingNote with a guid pattern that never matches
ExistingNoteWithoutGuid(file, settings) ==
  [basename |-> file.basename, guid |-> NoGuid, content |-> file.content]

\* One element of getExistingNotes for a file [basename, content] of the folder
ExistingNote(file, settings) ==
  With(createFrontmatterKeyRegex(file.content, settings.guidFrontmatterKey),
       LAMBDA guidMatch :
         [basename |-> file.basename,
          guid |-> IF guidMatch.ok THEN [isNull |-> FALSE, s |-> Trim(guidMatch.value)]
                   ELSE NoGuid,
          content |-> file.content])

getExistingNotes(files, settings) ==
  [i \in 1..Len(files) |-> ExistingNote(files[i], settings)]

\* new Set(existingNotes.map((n) => n.guid).filter(Boolean))
ExistingGuids(existingNotes) ==
  {existingNotes[i].guid.s : i \in {j \in 1..Len(existingNotes) :
      ~existingNotes[j].guid.isNull /\ existingNotes[j].guid.s # ""}}

\* the test of the loop body of findMatchingNote for one note
\* the title comparison of findMatchingNote
TitleMatches(filmMatch, entry) ==
  filmMatch.ok /\ NormalizeTitle(filmMatch.title) = NormalizeTitle(entry.filmTitle)

NoteMatches(entry, note, filenameRegex, settings) ==
  \/ (~note.guid.isNull /\ note.guid.s # "" /\ note.guid.s = entry.guid)
  \/ /\ \/ note.basename = generateFilename(settings.filenameTemplate, entry)
        \/ RegexTest(filenameRegex, note.basename)
     /\ TitleMatches(FilmMatch(note.content), entry)

\* the matches array of findMatchingNote, as indices into existingNotes
RECURSIVE MatchesFrom(_, _, _, _, _)
MatchesFrom(entry, existingNotes, filenameRegex, settings, i) ==
  IF i > Len(existingNotes) THEN <<>>
  ELSE (IF NoteMatches(entry, existingNotes[i], filenameRegex, settings)
        THEN <<i>> ELSE <<>>)
       \o MatchesFrom(entry, existingNotes, filenameRegex, settings, i + 1)

\* findMatchingNote without the check for several matches: the first match wins
findFirstMatchingNote(entry, existingNotes, filenameRegex, settings) ==
  With(MatchesFrom(entry, existingNotes, filenameRegex, settings, 1), LAMBDA matches :
    IF Len(matches) = 0
    THEN [threw |-> FALSE, message |-> "", found |-> FALSE, index |-> 0]
    ELSE [threw |-> FALSE, message |-> "", found |-> TRUE, index |-> matches[1]])

\* findMatchingNote: [threw, message, found, index]; found = FALSE is null
findMatchingNote(entry, existingNotes, filenameRegex, settings) ==
  With(MatchesFrom(entry, existingNotes, filenameRegex, settings, 1), LAMBDA matches :
    IF Len(matches) = 0
    THEN [threw |-> FALSE, message |-> "", found |-> FALSE, index |-> 0]
    ELSE IF Len(matches) > 1
    THEN [threw |-> TRUE,
          message |-> "Multiple matches for \"" \o entry.filmTitle \o "\" ("
                      \o entry.watchedDate \o "): "
                      \o Join([k \in 1..Len(matches) |-> existingNotes[matches[k]].basename],
                              ", "),
          found |-> FALSE, index |-> 0]
    ELSE [threw |-> FALSE, message |-> "", found |-> TRUE, index |-> matches[1]])

\* validateCSVImport returning at the first error
RECURSIVE validateUntilFirstError(_, _, _, _)
validateUntilFirstError(entries, existingNotes, filenameRegex, settings) ==
  IF entries = <<>> THEN <<>>
  ELSE With(findMatchingNote(Head(entries), existingNotes, filenameRegex, settings),
            LAMBDA r :
              IF r.threw THEN <<r.message>>
              ELSE validateUntilFirstError(Tail(entries), existingNotes, filenameRegex,
                                           settings))

RECURSIVE validateCSVImport(_, _, _, _)
validateCSVImport(entries, existingNotes, filenameRegex, settings) ==
  IF entries = <<>> THEN <<>>
  ELSE With(findMatchingNote(Head(entries), existingNotes, filenameRegex, settings),
            LAMBDA r : IF r.threw THEN <<r.message>> ELSE <<>>)
       \o validateCSVImport(Tail(entries), existingNotes, filenameRegex, settings)

\* ------------------------------------------------------------------------
\* settings.ts: the default settings
\* ------------------------------------------------------------------------

DEFAULT_NOTE_TEMPLATE ==
  "---\n"
  \o "film: \"[[{{filmTitle}} ({{filmYear}})]]\"\n"
  \o "rating: {{userRatingNoOver10}}\n"
  \o "watched_date: {{watchedDate}}\n"
  \o "letterboxd_url: {{link yaml=true}}\n"
  \o "tmdb_id: {{tmdbId}}\n"
  \o "poster: {{posterUrl yaml=true}}\n"
  \o "letterboxd_guid: {{guid}}\n"
  \o "letterboxd_tags: {{tags yaml=true}}\n"
  \o "---\n"
  \o "\n"
  \o "# [[{{filmTitle}} ({{filmYear}})]]\n"
  \o "\n"
  \o "{{posterUrl skipEmpty=true prefix=\"![Poster](\" suffix=\")\"}}\n"
  \o "\n"
  \o "**Rating**: {{userRatingStars}}\n"
  \o "**Watched**: {{watchedDate}}{{#if rewatch}} (rewatch){{/if}}\n"
  \o "\n"
  \o "{{review skipEmpty=true quote=true}}\n"
  \o "\n"
  \o "---\n"
  \o "[View on Letterboxd]({{link}})\n"

DEFAULT_FILENAME_TEMPLATE == "{{watchedDate}} - {{filmTitle}}"

DEFAULT_GUID_KEY == "letterboxd_guid"

DEFAULT_TMDB_FILENAME_TEMPLATE == "{{title}} ({{year}})"

DEFAULT_TMDB_ID_KEY == "tmdb_id"

DEFAULT_TMDB_NOTE_TEMPLATE ==
  "---\n"
  \o "title: \"{{title}}\"\n"
  \o "original_title: \"{{originalTitle}}\"\n"
  \o "year: {{year}}\n"
  \o "release_date: {{releaseDate}}\n"
  \o "runtime: {{runtime}}\n"
  \o "tmdb_id: {{tmdbId}}\n"
  \o "imdb_id: \"{{imdbId}}\"\n"
  \o "tmdb_rating: {{tmdbRating}}\n"
  \o "genres: {{genres yaml=true}}\n"
  \o "directors: {{directors yaml=true link=true}}\n"
  \o "cast: {{cast yaml=true link=true}}\n"
  \o "poster: \"{{posterUrlL}}\"\n"
  \o "---\n"
  \o "\n"
  \o "# {{title}} ({{year}})\n"
  \o "\n"
  \o "{{posterUrlL skipEmpty=true prefix=\"![Poster](\" suffix=\")\"}}\n"
  \o "\n"
  \o "{{tagline quote=true bold=true}}\n"
  \o "{{overview quote=true}}\n"
  \o "\n"
  \o "**Runtime**: {{runtimeFormatted}}\n"
  \o "**Genres**: {{genreList}}\n"
  \o "\n"
  \o "## Cast\n"
  \o "\n"
  \o "{{castWithRoles bullet=true linkActors=true}}\n"
  \o "\n"
  \o "---\n"
  \o "[TMDB]({{tmdbUrl}}){{#if imdbId}} | [IMDb](https://imdb.com/title/{{imdbId}}){{/if}}\n"

DEFAULT_NOTIFICATION_LEVEL == "verbose"

\* DEFAULT_SETTINGS with the user name the README has the user enter first
DEFAULT_SETTINGS ==
  [username |-> "diego",
   filenameTemplate |-> DEFAULT_FILENAME_TEMPLATE,
   noteTemplate |-> DEFAULT_NOTE_TEMPLATE,
   syncReviewsOnly |-> FALSE,
   guidFrontmatterKey |-> DEFAULT_GUID_KEY,
   tmdbApiKey |-> "",
   tmdbFilenameTemplate |-> DEFAULT_TMDB_FILENAME_TEMPLATE,
   tmdbNoteTemplate |-> DEFAULT_TMDB_NOTE_TEMPLATE,
   tmdbIdFrontmatterKey |-> DEFAULT_TMDB_ID_KEY,
   notificationLevel |-> DEFAULT_NOTIFICATION_LEVEL]

\* ------------------------------------------------------------------------
\* Bounds and the records the collaborators supply
\* ------------------------------------------------------------------------

\* sync invocations in one behaviour
MaxRuns == 2

\* records in one CSV batch, entries in one RSS feed
MaxBatch == 2

\* injected failures of vault.create / vault.process / a collaborator
MaxFaults == 1

\* readings of Date.now() above its first value
MaxClock == 1

Entry(guid, filmTitle, filmYear, watchedDate, rating, rewatch, tmdbId, review, tags) ==
  [filmTitle |-> filmTitle, filmYear |-> filmYear, userRatingNo |-> rating,
   userRatingStars |-> ratingToStars(rating), watchedDate |-> watchedDate, rewatch |-> rewatch,
   link |-> "https://boxd.it/" \o guid, tmdbId |-> tmdbId, posterUrl |-> "",
   guid |-> guid, review |-> review, pubDate |-> watchedDate,
   containsSpoilers |-> FALSE, tags |-> tags]

\* Records as toLetterboxdEntry (csv-parser.ts) builds them: the guid is the
\* viewing id. Two viewings of one film and one viewing of another film, whose
\* review has three lines, the second a horizontal rule.
CsvEntries ==
  {Entry("1", "Heat", 1995, "2024-01-01", Rating(4), FALSE, "949", "", <<"at home">>),
   Entry("2", "Heat", 1995, "2024-01-05", NoRating, TRUE, "949", "", <<>>),
   Entry("3", "Ran", 1985, "2024-01-01", Rating(5), FALSE, "11645", "So\n---\ngood", <<>>)}

\* Records as parseItem (parser.ts) builds them: the guid is the RSS guid and
\* the tags are the sentinel.
RssEntries ==
  {Entry("letterboxd-watch-1", "Heat", 1995, "2024-01-01", NoRating, FALSE, "949", "",
         <<TAGS_PENDING_FROM_RSS>>),
   Entry("letterboxd-review-3", "Ran", 1985, "2024-01-01", Rating(5), FALSE, "11645",
         "So\n---\ngood", <<TAGS_PENDING_FROM_RSS>>)}

\* The movies the TMDB API knows, as transformResponse returns them: the film
\* of 1995, another film of that title and year, and Ran.
TmdbMovies ==
  {transformResponse(949, "Heat", "1995-12-15", 170, "tt0113277", <<"Crime">>,
                     <<"Michael Mann">>, <<"Al Pacino">>, <<"Vincent Hanna">>, "/heat.jpg"),
   transformResponse(950, "Heat", "1995-01-01", 60, "", <<>>, <<>>, <<>>, <<>>, ""),
   transformResponse(11645, "Ran", "1985-06-01", 162, "tt0089881", <<"Drama">>,
                     <<"Akira Kurosawa">>, <<"Tatsuya Nakadai">>, <<>>, "/ran.jpg")}

\* the ids a caller hands over: those of diary entries, the id of the other
\* film, and the empty id of an entry without one
TmdbIds == {"949", "950", "11645", ""}

\* the sequences of length at most n over S
RECURSIVE SeqsUpTo(_, _)
SeqsUpTo(S, n) ==
  IF n = 0 THEN {<<>>}
  ELSE SeqsUpTo(S, n - 1) \cup {Append(q, x) : q \in {r \in SeqsUpTo(S, n - 1) : Len(r) = n - 1}, x \in S}

Batches == SeqsUpTo(CsvEntries, MaxBatch)

Feeds == SeqsUpTo(RssEntries, MaxBatch)

\* the lists syncFilmsFromTMDB is called with
FilmLists == SeqsUpTo(TmdbIds, MaxBatch)

SettingsSet == {DEFAULT_SETTINGS}

\* ------------------------------------------------------------------------
\* State
\* ------------------------------------------------------------------------

VARIABLES
  settings,   \* plugin.settings
  vault,      \* the markdown files of folderPath, in folder.children order
  films,      \* the markdown files of tmdbFolderPath, in folder.children order
  now,        \* Date.now()
  faults,     \* failures injected so far
  runs,       \* invocations started so far
  inv,        \* per caller, the invocation in progress: its locals and its position
  log,        \* the invocations that returned: input, result, vault before and after
  mContent,   \* merge check: the existing content
  mEntry,     \* merge check: the record
  mOnce,      \* merge check: updateNoteFrontmatter(mContent, mEntry)
  mTwice,     \* merge check: updateNoteFrontmatter(mOnce, mEntry)
  mpc,        \* merge check: "start", "once" or "twice"
  tTemplate,  \* engine check: the template
  tData,      \* engine check: the diary entry or the movie
  tRendered,  \* engine check: render(tTemplate, tData)
  tFilename,  \* engine check: generateFilename(tTemplate, tData)
  tpc,        \* engine check: "start", "rendered" or "named"
  calls,      \* notify check: the calls of notify so far
  notices     \* notify check: the messages a Notice has shown so far

vars == <<settings, vault, films, now, faults, runs, inv, log,
          mContent, mEntry, mOnce, mTwice, mpc,
          tTemplate, tData, tRendered, tFilename, tpc, calls, notices>>

mergeVars == <<mContent, mEntry, mOnce, mTwice, mpc>>

engineVars == <<tTemplate, tData, tRendered, tFilename, tpc>>

notifyVars == <<calls, notices>>

syncVars == <<vault, films, now, faults, runs, inv, log>>

\* the callers that can have an invocation in progress (a command, the ribbon
\* icon, the startup timer of main.ts)
Procs == {1, 2}

Idle ==
  [op |-> "idle", pc |-> "idle", threw |-> FALSE, input |-> <<>>, entries |-> <<>>,
   idx |-> 0, existingNotes |-> <<>>, existingGuids |-> {}, existingTmdbIds |-> {},
   result |-> <<>>, before |-> <<>>]

HasFile(files, basename) == \E i \in 1..Len(files) : files[i].basename = basename

FileIndex(files, basename) == CHOOSE i \in 1..Len(files) : files[i].basename = basename

\* vault.create(path, content): [ok, files]; it throws when the path is taken
VaultCreate(files, basename, content) ==
  IF HasFile(files, basename) THEN [ok |-> FALSE, files |-> files]
  ELSE [ok |-> TRUE, files |-> Append(files, [basename |-> basename, content |-> content])]

\* the path of createNote without the suffix
plainFilename(files, filename, t) == filename

\* createNote with Date.now() = t: [ok, files]
\* the path createNote writes to: the file name, made unique with Date.now()
\* when it is taken
uniqueFilename(files, filename, t) ==
  IF HasFile(files, filename) THEN filename \o " (" \o NumToString(t) \o ")"
  ELSE filename

createNote(files, entry, t) ==
  VaultCreate(files,
              uniqueFilename(files, generateFilename(settings.filenameTemplate, entry), t),
              renderTemplate(settings.noteTemplate, entry))

\* ------------------------------------------------------------------------
\* tmdb/sync.ts: the Film notes
\* ------------------------------------------------------------------------

\* tmdbId: string | null
NoTmdbId == [isNull |-> TRUE, s |-> ""]

\* ExistingFilmNote with an id pattern that never matches
ExistingFilmNoteWithoutId(file, st) == [basename |-> file.basename, tmdbId |-> NoTmdbId]

\* One element of getExistingFilmNotes for a file [basename, content]
ExistingFilmNote(file, st) ==
  With(createFrontmatterKeyRegex(file.content, st.tmdbIdFrontmatterKey),
       LAMBDA tmdbIdMatch :
         [basename |-> file.basename,
          tmdbId |-> IF tmdbIdMatch.ok
                     THEN [isNull |-> FALSE, s |-> Trim(tmdbIdMatch.value)]
                     ELSE NoTmdbId])

getExistingFilmNotes(files, st) ==
  [i \in 1..Len(files) |-> ExistingFilmNote(files[i], st)]

\* new Set(notes.map((n) => n.tmdbId).filter(...)): the ids that are neither
\* null nor ""; filter(Boolean) of syncFilmsFromTMDB keeps the same ones
ExistingIdsOf(notes) ==
  {notes[i].tmdbId.s : i \in {j \in 1..Len(notes) :
      ~notes[j].tmdbId.isNull /\ notes[j].tmdbId.s # ""}}

\* getExistingTmdbIds reading no Film note
getNoTmdbIds(files, st) == {}

getExistingTmdbIds(files, st) == ExistingIdsOf(getExistingFilmNotes(files, st))

\* createFilmNote: [ok, files]; a taken file name gets the id as its suffix
FilmFilename(files, filename, movie) ==
  IF HasFile(files, filename)
  THEN filename \o " (" \o NumToString(movie.tmdbId) \o ")"
  ELSE filename

createFilmNote(files, movie, st) ==
  VaultCreate(files,
              FilmFilename(files, generateTMDBFilename(st.tmdbFilenameTemplate, movie),
                           movie),
              renderTMDBTemplate(st.tmdbNoteTemplate, movie))

\* fetchTMDBMovie(tmdbId, ...): [ok, movie]; an id the API does not know
\* answers 404, which throws
fetchTMDBMovie(tmdbId) ==
  IF \E m \in TmdbMovies : NumToString(m.tmdbId) = tmdbId
  THEN [ok |-> TRUE, movie |-> CHOOSE m \in TmdbMovies : NumToString(m.tmdbId) = tmdbId]
  ELSE [ok |-> FALSE, movie |-> <<>>]

\* the invocation of p returns: it is logged with the vault it leaves
Finish(p, result) ==
  /\ log' = Append(log, [op |-> inv[p].op, input |-> inv[p].input, threw |-> inv[p].threw,
                         result |-> result, before |-> inv[p].before,
                         after |-> vault'])
  /\ inv' = [inv EXCEPT ![p] = Idle]

MayFail == IF faults < MaxFaults THEN BOOLEAN ELSE {FALSE}

\* What Date.now() can return to createNote, which reads it only when the
\* file name is taken: the last reading or a later one.
Clock(files, entry) ==
  IF HasFile(files, generateFilename(settings.filenameTemplate, entry)) /\ now < MaxClock
  THEN {now, now + 1} ELSE {now}

Fault(fail) == faults' = IF fail THEN faults + 1 ELSE faults

\* ------------------------------------------------------------------------
\* notes/sync.ts: syncDiary
\* ------------------------------------------------------------------------

SyncResult == [created |-> 0, skipped |-> 0, errors |-> 0, createdTmdbIds |-> <<>>]

\* The call up to "await fetchLetterboxdRSS(username)"; feed is what the fetch
\* will resolve to, fail whether it throws instead. Without a user name there
\* is no fetch.
SyncDiaryBegin(p) ==
  /\ inv[p].op = "idle"
  /\ runs < MaxRuns
  /\ runs' = runs + 1
  /\ \E feed \in Feeds, fail \in (IF settings.username = "" THEN {FALSE} ELSE MayFail) :
       /\ Fault(fail)
       /\ inv' = [inv EXCEPT ![p] =
            [Idle EXCEPT !.op = "syncDiary",
                         !.pc = IF settings.username = "" THEN "return" ELSE "fetch",
                         !.input = feed, !.threw = fail, !.result = SyncResult,
                         !.before = vault]]
  /\ UNCHANGED <<settings, vault, films, now, log, mergeVars, engineVars, notifyVars>>

\* the call made while no other invocation is in progress
SyncDiaryStart(p) ==
  /\ \A q \in Procs : inv[q].op = "idle"
  /\ SyncDiaryBegin(p)

\* The fetch settles: a throw is caught by the outer catch, an empty list
\* returns, otherwise the folder is ensured and the existing notes are read.
SyncDiaryFetched(p) ==
  /\ inv[p].op = "syncDiary" /\ inv[p].pc \in {"fetch", "return"}
  /\ \E entries \in {IF settings.syncReviewsOnly
                       THEN SelectSeq(inv[p].input, LAMBDA e : Len(e.review) > 0)
                       ELSE inv[p].input} :
       /\ vault' = vault
       /\ IF inv[p].pc = "return" \/ inv[p].threw \/ Len(entries) = 0
          THEN Finish(p, inv[p].result)
          ELSE \E existingNotes \in {getExistingNotes(vault, settings)} :
                 /\ inv' = [inv EXCEPT ![p].pc = "loop", ![p].entries = entries,
                                       ![p].idx = 1,
                                       ![p].existingNotes = existingNotes,
                                       ![p].existingGuids = ExistingGuids(existingNotes)]
                 /\ log' = log
  /\ UNCHANGED <<settings, films, now, faults, runs, mergeVars, engineVars, notifyVars>>

\* One turn of the loop over the entries; after the last one the result is
\* returned.
SyncDiaryEntry(p) ==
  /\ inv[p].op = "syncDiary" /\ inv[p].pc = "loop"
  /\ LET entry == inv[p].entries[inv[p].idx]
         r == inv[p].result
         last == inv[p].idx = Len(inv[p].entries)
         Step(result, files) ==
           /\ vault' = files
           /\ IF last THEN Finish(p, result)
              ELSE /\ inv' = [inv EXCEPT ![p].idx = @ + 1, ![p].result = result]
                   /\ log' = log
     IN IF entry.guid \in inv[p].existingGuids
        THEN /\ Step([r EXCEPT !.skipped = @ + 1], vault)
             /\ UNCHANGED <<now, faults>>
        ELSE \E t \in Clock(vault, entry), fail \in MayFail :
               \E c \in {createNote(vault, entry, t)} :
                  /\ now' = t
                  /\ Fault(fail)
                  /\ IF c.ok /\ ~fail
                     THEN Step([r EXCEPT !.created = @ + 1,
                                         !.createdTmdbIds =
                                            IF entry.tmdbId # ""
                                            THEN Append(@, entry.tmdbId) ELSE @],
                               c.files)
                     ELSE Step([r EXCEPT !.errors = @ + 1], vault)
  /\ UNCHANGED <<settings, films, runs, mergeVars, engineVars, notifyVars>>

\* ------------------------------------------------------------------------
\* notes/sync.ts: importFromCSV
\* ------------------------------------------------------------------------

CSVImportResult ==
  [created |-> 0, updated |-> 0, skipped |-> 0, errors |-> <<>>, newTmdbIds |-> <<>>]

\* The call up to "await parseLetterboxdExport(...)"; batch is what the parser
\* will resolve to, fail whether it throws instead.
ImportStart(p) ==
  /\ \A q \in Procs : inv[q].op = "idle"
  /\ runs < MaxRuns
  /\ runs' = runs + 1
  /\ \E batch \in Batches, fail \in MayFail :
       /\ Fault(fail)
       /\ inv' = [inv EXCEPT ![p] =
            [Idle EXCEPT !.op = "importFromCSV", !.pc = "parse", !.input = batch,
                         !.threw = fail, !.result = CSVImportResult,
                         !.before = vault]]
  /\ UNCHANGED <<settings, vault, films, now, log, mergeVars, engineVars, notifyVars>>

\* The parse settles: a throw reaches the outer catch, an empty batch returns;
\* otherwise the existing notes are read and every record is validated
\* against them, and any validation error ends the import.
ImportValidate(p) ==
  /\ inv[p].op = "importFromCSV" /\ inv[p].pc = "parse"
  /\ vault' = vault
  /\ IF inv[p].threw
     THEN Finish(p, [inv[p].result EXCEPT !.errors = Append(@, "parse failed")])
     ELSE IF Len(inv[p].input) = 0
     THEN Finish(p, inv[p].result)
     ELSE \E existingNotes \in {getExistingNotes(vault, settings)} :
          \E validationErrors \in
               {validateCSVImport(inv[p].input, existingNotes,
                                  filenameTemplateToRegex(settings.filenameTemplate),
                                  settings)} :
            IF Len(validationErrors) > 0
            THEN Finish(p, [inv[p].result EXCEPT !.errors = validationErrors])
            ELSE /\ inv' = [inv EXCEPT ![p].pc = "tmdb", ![p].entries = inv[p].input,
                                       ![p].existingNotes = existingNotes]
                 /\ log' = log
  /\ UNCHANGED <<settings, films, now, faults, runs, mergeVars, engineVars, notifyVars>>

\* await getExistingTmdbIds(plugin)
ImportTmdbIds(p) ==
  /\ inv[p].op = "importFromCSV" /\ inv[p].pc = "tmdb"
  /\ inv' = [inv EXCEPT ![p].pc = "loop", ![p].idx = 1, ![p].existingTmdbIds = getExistingTmdbIds(films, settings)]
  /\ UNCHANGED <<settings, vault, films, now, faults, runs, log, mergeVars, engineVars, notifyVars>>

\* the catch of the loop, pushing the message without the title
RecordErrorUntitled(result, entry, msg) == [result EXCEPT !.errors = Append(@, msg)]

\* the catch of the loop pushing nothing
RecordErrorDropped(result, entry, msg) == result

\* the catch of the loop: result.errors.push(`${entry.filmTitle}: ${msg}`)
RecordError(result, entry, msg) ==
  [result EXCEPT !.errors = Append(@, entry.filmTitle \o ": " \o msg)]

\* the apply phase reading the folder again at each record
FreshNotes(p) == getExistingNotes(vault, settings)

\* the existingNotes the apply phase hands to findMatchingNote: the array read
\* before validation
ApplyNotes(p) == inv[p].existingNotes

\* One turn of the loop over the records: the record is matched against the
\* notes read before validation; a match is merged into the file's current
\* content by vault.process, no match creates a note. After the last record
\* the result is returned.
ImportEntry(p) ==
  /\ inv[p].op = "importFromCSV" /\ inv[p].pc = "loop"
  /\ LET entry == inv[p].entries[inv[p].idx]
         r == inv[p].result
         last == inv[p].idx = Len(inv[p].entries)
         isNew == entry.tmdbId # "" /\ entry.tmdbId \notin inv[p].existingTmdbIds
         Counted(result) ==
           IF isNew THEN [result EXCEPT !.newTmdbIds = Append(@, entry.tmdbId)]
           ELSE result
         Step(result, files, ids) ==
           /\ vault' = files
           /\ IF last
              THEN Finish(p, result)
              ELSE /\ inv' = [inv EXCEPT ![p].idx = @ + 1, ![p].result = result,
                                         ![p].existingTmdbIds = ids]
                   /\ log' = log
         Failed(msg) == Step(RecordError(r, entry, msg), vault, inv[p].existingTmdbIds)
         ids == IF isNew THEN inv[p].existingTmdbIds \cup {entry.tmdbId}
                ELSE inv[p].existingTmdbIds
     IN \E m \in {findMatchingNote(entry, ApplyNotes(p),
                                   filenameTemplateToRegex(settings.filenameTemplate),
                                   settings)} :
        IF m.threw
        THEN /\ Failed(m.message)
             /\ UNCHANGED <<now, faults>>
        ELSE IF m.found
        THEN \E basename \in {ApplyNotes(p)[m.index].basename}, fail \in MayFail :
               /\ Fault(fail)
               /\ now' = now
               /\ IF fail \/ ~HasFile(vault, basename)
                  THEN Failed("process failed")
                  ELSE \E i \in {FileIndex(vault, basename)} :
                       \E newContent \in
                            {updateNoteFrontmatter(vault[i].content, entry, settings)} :
                         IF newContent # vault[i].content
                         THEN Step(Counted([r EXCEPT !.updated = @ + 1]),
                                   [vault EXCEPT ![i].content = newContent], ids)
                         ELSE Step(Counted([r EXCEPT !.skipped = @ + 1]), vault, ids)
        ELSE \E t \in Clock(vault, entry), fail \in MayFail :
               \E c \in {createNote(vault, entry, t)} :
                  /\ now' = t
                  /\ Fault(fail)
                  /\ IF c.ok /\ ~fail
                     THEN Step(Counted([r EXCEPT !.created = @ + 1]), c.files, ids)
                     ELSE Failed("create failed")
  /\ UNCHANGED <<settings, films, runs, mergeVars, engineVars, notifyVars>>

\* ------------------------------------------------------------------------
\* The plugin: one invocation at a time
\* ------------------------------------------------------------------------

\* The folder at start-up: empty, or holding the note an earlier session's
\* sync created for the first entry of the feed.
InitialVaults ==
  {<<>>} \cup {createNote(<<>>, e, 0).files : e \in {x \in RssEntries : x.filmTitle = "Heat"}}

\* The Film folder at start-up: empty, or holding the Film note an earlier
\* session created for Heat.
InitialFilms ==
  {<<>>} \cup {createFilmNote(<<>>, fetchTMDBMovie("949").movie, DEFAULT_SETTINGS).files}

Init ==
  /\ settings \in SettingsSet
  /\ vault \in InitialVaults
  /\ films \in InitialFilms
  /\ now = 0
  /\ faults = 0
  /\ runs = 0
  /\ inv = [p \in Procs |-> Idle]
  /\ log = <<>>
  /\ mContent = ""
  /\ mEntry = CHOOSE e \in CsvEntries : TRUE
  /\ mOnce = ""
  /\ mTwice = ""
  /\ mpc = "off"
  /\ tTemplate = ""
  /\ tData = CHOOSE e \in CsvEntries : TRUE
  /\ tRendered = ""
  /\ tFilename = ""
  /\ tpc = "off"
  /\ calls = <<>>
  /\ notices = <<>>

\* The invocations run one after the other, each to its return, as caller 1:
\* a second caller would interleave its steps with these.
Next ==
  \/ SyncDiaryStart(1)
  \/ SyncDiaryFetched(1)
  \/ SyncDiaryEntry(1)
  \/ ImportStart(1)
  \/ ImportValidate(1)
  \/ ImportTmdbIds(1)
  \/ ImportEntry(1)

Spec == Init /\ [][Next]_vars

\* ------------------------------------------------------------------------
\* tmdb/sync.ts: syncFilmsFromTMDB and syncSingleFilm
\* ------------------------------------------------------------------------

TMDBSyncResult == [created |-> 0, skipped |-> 0, errors |-> 0]

\* tmdbIds.filter((id) => id && id.trim())
ValidIds(tmdbIds) == SelectSeq(tmdbIds, LAMBDA id : id # "" /\ Trim(id) # "")

\* the invocation of p returns: it is logged with the Film folder it leaves
FinishFilms(p, result) ==
  /\ log' = Append(log, [op |-> inv[p].op, input |-> inv[p].input, threw |-> inv[p].threw,
                         result |-> result, before |-> inv[p].before,
                         after |-> films'])
  /\ inv' = [inv EXCEPT ![p] = Idle]

\* where syncFilmsFromTMDB goes on without asking for the token
FilmsEntryPointNoToken(st, tmdbIds) ==
  IF Len(ValidIds(tmdbIds)) = 0 THEN "return" ELSE "read"

\* where syncFilmsFromTMDB goes on after its two early returns
FilmsEntryPoint(st, tmdbIds) ==
  IF st.tmdbApiKey = "" \/ Len(ValidIds(tmdbIds)) = 0 THEN "return" ELSE "read"

\* The call up to "await ensureFolderExists(...)": without a token, or without
\* a valid id, the result is returned at once.
FilmsStart(p) ==
  /\ \A q \in Procs : inv[q].op = "idle"
  /\ runs < MaxRuns
  /\ runs' = runs + 1
  /\ \E tmdbIds \in FilmLists :
       inv' = [inv EXCEPT ![p] =
         [Idle EXCEPT !.op = "syncFilmsFromTMDB",
                      !.pc = FilmsEntryPoint(settings, tmdbIds),
                      !.input = tmdbIds, !.entries = ValidIds(tmdbIds),
                      !.result = TMDBSyncResult, !.before = films]]
  /\ UNCHANGED <<settings, vault, films, now, faults, log, mergeVars, engineVars, notifyVars>>

\* The early return, or ensureFolderExists and getExistingFilmNotes: a throw
\* is caught by the outer catch, which logs it to the console.
FilmsRead(p) ==
  /\ inv[p].op = "syncFilmsFromTMDB" /\ inv[p].pc \in {"read", "return"}
  /\ films' = films
  /\ IF inv[p].pc = "return"
     THEN FinishFilms(p, inv[p].result) /\ faults' = faults
     ELSE \E fail \in MayFail :
            /\ Fault(fail)
            /\ IF fail
               THEN /\ inv' = [inv EXCEPT ![p].pc = "return", ![p].threw = TRUE]
                    /\ log' = log
               ELSE /\ inv' = [inv EXCEPT ![p].pc = "loop", ![p].idx = 1,
                                          ![p].existingTmdbIds =
                                             ExistingIdsOf(getExistingFilmNotes(films, settings))]
                    /\ log' = log
  /\ UNCHANGED <<settings, vault, now, runs, mergeVars, engineVars, notifyVars>>

\* One turn of the loop over the valid ids; after the last one the result is
\* returned.
FilmsEntry(p) ==
  /\ inv[p].op = "syncFilmsFromTMDB" /\ inv[p].pc = "loop"
  /\ LET tmdbId == inv[p].entries[inv[p].idx]
         r == inv[p].result
         last == inv[p].idx = Len(inv[p].entries)
         Step(result, files, ids) ==
           /\ films' = files
           /\ IF last THEN FinishFilms(p, result)
              ELSE /\ inv' = [inv EXCEPT ![p].idx = @ + 1, ![p].result = result,
                                         ![p].existingTmdbIds = ids]
                   /\ log' = log
         Failed == Step([r EXCEPT !.errors = @ + 1], films, inv[p].existingTmdbIds)
     IN IF tmdbId \in inv[p].existingTmdbIds
        THEN /\ Step([r EXCEPT !.skipped = @ + 1], films, inv[p].existingTmdbIds)
             /\ faults' = faults
        ELSE \E fail \in MayFail, f \in {fetchTMDBMovie(tmdbId)} :
               /\ Fault(fail)
               /\ IF fail \/ ~f.ok THEN Failed
                  ELSE \E c \in {createFilmNote(films, f.movie, settings)} :
                         IF c.ok
                         THEN Step([r EXCEPT !.created = @ + 1], c.files,
                                   inv[p].existingTmdbIds \cup {tmdbId})
                         ELSE Failed
  /\ UNCHANGED <<settings, vault, now, runs, mergeVars, engineVars, notifyVars>>

\* syncSingleFilm(plugin, tmdbId), from its call to its return: false without a
\* token or an id, false when a Film note holds the id or a step throws, true
\* when the note was created.
SingleFilm(p) ==
  /\ \A q \in Procs : inv[q].op = "idle"
  /\ runs < MaxRuns
  /\ runs' = runs + 1
  /\ \E tmdbId \in TmdbIds, fail \in MayFail :
     \E f \in {fetchTMDBMovie(tmdbId)} :
     \E c \in {IF f.ok THEN createFilmNote(films, f.movie, settings)
               ELSE [ok |-> FALSE, files |-> films]} :
     \E done \in {/\ settings.tmdbApiKey # "" /\ tmdbId # "" /\ ~fail
                  /\ tmdbId \notin ExistingIdsOf(getExistingFilmNotes(films, settings))
                  /\ c.ok} :
       /\ faults' = IF settings.tmdbApiKey # "" /\ tmdbId # "" /\ fail
                    THEN faults + 1 ELSE faults
       /\ films' = IF done THEN c.files ELSE films
       /\ log' = Append(log, [op |-> "syncSingleFilm", input |-> <<tmdbId>>,
                              threw |-> settings.tmdbApiKey # "" /\ tmdbId # "" /\ fail,
                              result |-> done, before |-> films, after |-> films'])
  /\ UNCHANGED <<settings, vault, now, inv, mergeVars, engineVars, notifyVars>>

\* The settings of a user who entered a user name, an API token, both or
\* neither (neither is DEFAULT_SETTINGS as settings.ts has it).
FilmSettings ==
  {[DEFAULT_SETTINGS EXCEPT !.username = u, !.tmdbApiKey = k] :
     u \in {"", "diego"}, k \in {"", "token"}}

InitFilms ==
  /\ settings \in FilmSettings
  /\ vault = <<>>
  /\ films \in InitialFilms
  /\ now = 0
  /\ faults = 0
  /\ runs = 0
  /\ inv = [p \in Procs |-> Idle]
  /\ log = <<>>
  /\ mContent = ""
  /\ mEntry = CHOOSE e \in CsvEntries : TRUE
  /\ mOnce = ""
  /\ mTwice = ""
  /\ mpc = "off"
  /\ tTemplate = ""
  /\ tData = CHOOSE e \in CsvEntries : TRUE
  /\ tRendered = ""
  /\ tFilename = ""
  /\ tpc = "off"
  /\ calls = <<>>
  /\ notices = <<>>

\* The commands of main.ts that reach the Film folder, one invocation at a
\* time, and syncDiary.
NextFilms ==
  \/ SyncDiaryStart(1)
  \/ SyncDiaryFetched(1)
  \/ SyncDiaryEntry(1)
  \/ FilmsStart(1)
  \/ FilmsRead(1)
  \/ FilmsEntry(1)
  \/ SingleFilm(1)

SpecFilms == InitFilms /\ [][NextFilms]_vars

\* The same commands on a folder that is empty or holds the note a CSV import
\* created for the first viewing of Heat, whose file name the diary entry of
\* the feed renders too, with the user name and the token set.
ImportedVaults ==
  {<<>>} \cup {createNote(<<>>, e, 0).files : e \in {x \in CsvEntries : x.guid = "1"}}

InitCreate ==
  /\ settings = [DEFAULT_SETTINGS EXCEPT !.tmdbApiKey = "token"]
  /\ vault \in ImportedVaults
  /\ films \in InitialFilms
  /\ now = 0
  /\ faults = 0
  /\ runs = 0
  /\ inv = [p \in Procs |-> Idle]
  /\ log = <<>>
  /\ mContent = ""
  /\ mEntry = CHOOSE e \in CsvEntries : TRUE
  /\ mOnce = ""
  /\ mTwice = ""
  /\ mpc = "off"
  /\ tTemplate = ""
  /\ tData = CHOOSE e \in CsvEntries : TRUE
  /\ tRendered = ""
  /\ tFilename = ""
  /\ tpc = "off"
  /\ calls = <<>>
  /\ notices = <<>>

SpecCreate == InitCreate /\ [][NextFilms]_vars

\* ------------------------------------------------------------------------
\* main.ts: syncDiary called while a syncDiary is in progress
\* ------------------------------------------------------------------------

\* The callbacks of main.ts call syncDiary without asking whether a sync is
\* running: the startup timer, the ribbon icon and the command can each start
\* one while another is at an await. Both fetch the same feed.
SyncDiaryOverlap(p) ==
  /\ SyncDiaryBegin(p)
  /\ \A q \in Procs : inv[q].op = "syncDiary" => inv'[p].input = inv[q].input

InitOverlap ==
  /\ settings \in SettingsSet
  /\ vault \in InitialVaults
  /\ films = <<>>
  /\ now = 0
  /\ faults = 0
  /\ runs = 0
  /\ inv = [p \in Procs |-> Idle]
  /\ log = <<>>
  /\ mContent = ""
  /\ mEntry = CHOOSE e \in CsvEntries : TRUE
  /\ mOnce = ""
  /\ mTwice = ""
  /\ mpc = "off"
  /\ tTemplate = ""
  /\ tData = CHOOSE e \in CsvEntries : TRUE
  /\ tRendered = ""
  /\ tFilename = ""
  /\ tpc = "off"
  /\ calls = <<>>
  /\ notices = <<>>

NextOverlap ==
  \E p \in Procs :
    \/ SyncDiaryOverlap(p)
    \/ SyncDiaryFetched(p)
    \/ SyncDiaryEntry(p)

SpecOverlap == InitOverlap /\ [][NextOverlap]_vars

\* ------------------------------------------------------------------------
\* The merge on its own: updateNoteFrontmatter applied once and again to the
\* contents and records below
\* ------------------------------------------------------------------------

\* frontmatter lines of an edited note
MaxFmLines == 2

\* A template of the user's: the rating is followed by the guid, and the
\* review and a bulleted tag list are kept in the frontmatter.
REVIEW_NOTE_TEMPLATE ==
  "---\n"
  \o "film: \"[[{{filmTitle}}]]\"\n"
  \o "rating: {{userRatingNoOver10}}\n"
  \o "letterboxd_guid: {{guid}}\n"
  \o "review: {{review}}\n"
  \o "letterboxd_tags: {{tags yaml=true bullet=true}}\n"
  \o "---\n"
  \o "{{review skipEmpty=true quote=true}}\n"

REVIEW_SETTINGS == [DEFAULT_SETTINGS EXCEPT !.noteTemplate = REVIEW_NOTE_TEMPLATE]

MergeSettings == {DEFAULT_SETTINGS, REVIEW_SETTINGS}

\* the frontmatter lines a user's note can hold: values the plugin wrote,
\* values the user cleared, a key of the user's own
FmLines ==
  {"rating: ", "rating: 8", "letterboxd_guid: 1",
   "letterboxd_tags: [\"" \o TAGS_PENDING_FROM_RSS \o "\"]", "review: ok", "mood: calm"}

\* what follows the frontmatter of an edited note
Bodies == {"\nMy notes\n---\nend\n"}

\* the notes the user edited, among them a note without frontmatter and a note
\* whose frontmatter is not closed and whose text holds a longer rule
EditedContents ==
  {"---\n" \o Join(lines, "\n") \o "\n---" \o body :
     lines \in SeqsUpTo(FmLines, MaxFmLines), body \in Bodies}
  \cup {"My notes\nrating: 8\n", "---\nrating: 6\nMy notes\n-----\nend\n"}

\* the notes createNote wrote under the settings st
RenderedContents(st) ==
  {renderTemplate(st.noteTemplate, e) : e \in RssEntries \cup CsvEntries}

InitMerge ==
  /\ settings \in MergeSettings
  /\ vault = <<>>
  /\ films = <<>>
  /\ now = 0
  /\ faults = 0
  /\ runs = 0
  /\ inv = [p \in Procs |-> Idle]
  /\ log = <<>>
  /\ mContent \in EditedContents \cup RenderedContents(settings)
  /\ mEntry \in CsvEntries
  /\ mOnce = ""
  /\ mTwice = ""
  /\ mpc = "start"
  /\ tTemplate = ""
  /\ tData = CHOOSE e \in CsvEntries : TRUE
  /\ tRendered = ""
  /\ tFilename = ""
  /\ tpc = "off"
  /\ calls = <<>>
  /\ notices = <<>>

\* vault.process hands the content to updateNoteFrontmatter
MergeOnce ==
  /\ mpc = "start"
  /\ mOnce' = updateNoteFrontmatter(mContent, mEntry, settings)
  /\ mpc' = "once"
  /\ UNCHANGED <<settings, syncVars, mContent, mEntry, mTwice, engineVars, notifyVars>>

\* the next import hands it the result
MergeTwice ==
  /\ mpc = "once"
  /\ mTwice' = updateNoteFrontmatter(mOnce, mEntry, settings)
  /\ mpc' = "twice"
  /\ UNCHANGED <<settings, syncVars, mContent, mEntry, mOnce, engineVars, notifyVars>>

NextMerge ==
  \/ MergeOnce
  \/ MergeTwice

SpecMerge == InitMerge /\ [][NextMerge]_vars

\* ------------------------------------------------------------------------
\* The engines on their own: render and generateFilename applied to the
\* templates and the records below
\* ------------------------------------------------------------------------

\* Diary entries whose title holds characters a file name cannot, dots and
\* spaces at its ends, or both, next to the entries of a CSV batch
EngineEntries ==
  CsvEntries \cup
  {Entry("4", "Face/Off: \"Who?\"", 1997, "2024-02-01", Rating(3), TRUE, "754", "fun", <<"a|b">>),
   Entry("5", "So ...", 1969, "2024-02-02", NoRating, FALSE, "", "", <<>>),
   Entry("6", "... First", 0, "", NoRating, FALSE, "", "{{guid}}", <<"">>)}

EngineRecords == EngineEntries \cup TmdbMovies

\* file name templates of a user
FilenameTemplates ==
  {DEFAULT_FILENAME_TEMPLATE, DEFAULT_TMDB_FILENAME_TEMPLATE, "{{filmTitle}}", "{{title}}",
   "{{filmTitle}} ({{filmYear}}).", " .{{guid}}. "}

\* the parts of a template PRE{{#if NAME}}BODY{{/if}}POST: names of both
\* accessor tables, a name of neither, the special handler of tmdbEngine and a
\* name every object inherits
CondPres == {"", "{{filmTitle}}{{title}}: "}

CondNames ==
  {"rewatch", "review", "tags", "filmYear", "imdbId", "cast", "nope", "castWithRoles",
   "constructor"}

CondBodies == {"kept", "[{{guid}}{{tmdbId}} {{nope}}]"}

CondPosts == {"", " {{watchedDate}}."}

CondTemplate(pre, name, body, post) ==
  pre \o "{{#if " \o name \o "}}" \o body \o "{{/if}}" \o post

CondTemplates ==
  {CondTemplate(pre, name, body, post) :
     pre \in CondPres, name \in CondNames, body \in CondBodies, post \in CondPosts}

\* the parts of a template PRE{{NAME PARAMS}}POST, PRE and POST without a
\* reference
VarPres == {"", "a "}

VarNames ==
  {"review", "tags", "rewatch", "filmYear", "title", "cast", "nope", "constructor"}

VarParams ==
  {"", " skipEmpty=true prefix=\"[\" suffix=\"]\"", " yaml=true skipEmpty=true prefix=\"[\"",
   " bold=true suffix=\"!\""}

VarPosts == {"", " z"}

VarTemplate(pre, name, params, post) == pre \o "{{" \o name \o params \o "}}" \o post

VarTemplates ==
  {VarTemplate(pre, name, params, post) :
     pre \in VarPres, name \in VarNames, params \in VarParams, post \in VarPosts}

InitEngine ==
  /\ settings = DEFAULT_SETTINGS
  /\ vault = <<>>
  /\ films = <<>>
  /\ now = 0
  /\ faults = 0
  /\ runs = 0
  /\ inv = [p \in Procs |-> Idle]
  /\ log = <<>>
  /\ mContent = ""
  /\ mEntry = CHOOSE e \in CsvEntries : TRUE
  /\ mOnce = ""
  /\ mTwice = ""
  /\ mpc = "off"
  /\ tTemplate \in FilenameTemplates \cup CondTemplates \cup VarTemplates
  /\ tData \in EngineRecords
  /\ tRendered = ""
  /\ tFilename = ""
  /\ tpc = "start"
  /\ calls = <<>>
  /\ notices = <<>>

\* createNote and createFilmNote render the note with the engine of the record
EngineRender ==
  /\ tpc = "start"
  /\ tRendered' = IF IsMovie(tData) THEN renderTMDBTemplate(tTemplate, tData)
                  ELSE renderTemplate(tTemplate, tData)
  /\ tpc' = "rendered"
  /\ UNCHANGED <<settings, syncVars, mergeVars, tTemplate, tData, tFilename, notifyVars>>

\* and name its file
EngineFilename ==
  /\ tpc = "rendered"
  /\ tFilename' = IF IsMovie(tData) THEN generateTMDBFilename(tTemplate, tData)
                  ELSE generateFilename(tTemplate, tData)
  /\ tpc' = "named"
  /\ UNCHANGED <<settings, syncVars, mergeVars, tTemplate, tData, tRendered, notifyVars>>

NextEngine ==
  \/ EngineRender
  \/ EngineFilename

SpecEngine == InitEngine /\ [][NextEngine]_vars

\* ------------------------------------------------------------------------
\* utils/frontmatter.ts: notify
\* ------------------------------------------------------------------------

\* calls of notify in one behaviour
MaxNotices == 2

\* type NotificationLevel
NotificationLevels == {"silent", "verbose", "newFilesOnly"}

NotifyCall(message, type, hasNewFiles) ==
  [message |-> message, type |-> type, hasNewFiles |-> hasNewFiles]

\* buildResultMessage("RSS", result)
buildResultMessage(result) ==
  With((IF result.created > 0 THEN <<NumToString(result.created) \o " created">> ELSE <<>>)
         \o (IF result.skipped > 0 THEN <<NumToString(result.skipped) \o " skipped">>
             ELSE <<>>)
         \o (IF result.errors > 0 THEN <<NumToString(result.errors) \o " errors">> ELSE <<>>),
       LAMBDA parts :
         IF Len(parts) > 0 THEN "Letterboxd RSS: " \o Join(parts, ", ")
         ELSE "Letterboxd RSS: No changes")

\* the calls syncDiary makes: without a user name, before the fetch, on an
\* empty feed, with the result, and from the outer catch
NotifyCalls ==
  {NotifyCall("Letterboxd: Please set your username in settings", "error", FALSE),
   NotifyCall("Letterboxd: Fetching diary...", "progress", FALSE),
   NotifyCall("Letterboxd: No entries found", "progress", FALSE),
   NotifyCall("Letterboxd: Sync failed - Unknown error", "error", FALSE)}
  \cup {NotifyCall(buildResultMessage(r), "result", r.created > 0) :
          r \in {[SyncResult EXCEPT !.created = c, !.skipped = k] : c, k \in 0..1}}

\* notify(message, level, type, hasNewFiles) with shown the messages a Notice
\* has shown so far
notify(shown, message, level, type, hasNewFiles) ==
  IF type = "error" THEN Append(shown, message)
  ELSE IF level = "silent" THEN shown
  ELSE IF level = "verbose" THEN Append(shown, message)
  ELSE IF type = "result" /\ hasNewFiles THEN Append(shown, message)
  ELSE shown

InitNotify ==
  /\ settings \in {[DEFAULT_SETTINGS EXCEPT !.notificationLevel = l] :
                     l \in NotificationLevels}
  /\ vault = <<>>
  /\ films = <<>>
  /\ now = 0
  /\ faults = 0
  /\ runs = 0
  /\ inv = [p \in Procs |-> Idle]
  /\ log = <<>>
  /\ mContent = ""
  /\ mEntry = CHOOSE e \in CsvEntries : TRUE
  /\ mOnce = ""
  /\ mTwice = ""
  /\ mpc = "off"
  /\ tTemplate = ""
  /\ tData = CHOOSE e \in CsvEntries : TRUE
  /\ tRendered = ""
  /\ tFilename = ""
  /\ tpc = "off"
  /\ calls = <<>>
  /\ notices = <<>>

\* one call of notify with the configured level
Notify ==
  /\ Len(calls) < MaxNotices
  /\ \E c \in NotifyCalls :
       /\ calls' = Append(calls, c)
       /\ notices' = notify(notices, c.message, settings.notificationLevel, c.type,
                            c.hasNewFiles)
  /\ UNCHANGED <<settings, syncVars, mergeVars, engineVars>>

NextNotify == Notify

SpecNotify == InitNotify /\ [][NextNotify]_vars

\* ------------------------------------------------------------------------
\* importFromCSV on a folder of notes the user has edited
\* ------------------------------------------------------------------------

\* Notes of the Heat viewing of 2024-01-01 under the file name the default
\* template gives it: as synced, with the value of the guid line deleted, with
\* the guid line moved to the body, with the film line moved to the body, with
\* the frontmatter of another film, and without a frontmatter block.
EditedNoteContents ==
  {"---\nfilm: \"[[Heat (1995)]]\"\nletterboxd_guid: letterboxd-watch-1\n---\nSeen.\n",
   "---\nfilm: \"[[Heat (1995)]]\"\nletterboxd_guid: \nletterboxd_tags: []\n---\nSeen.\n",
   "---\nfilm: \"[[Heat (1995)]]\"\n---\nSeen.\nletterboxd_guid: 1\n",
   "---\nletterboxd_guid: letterboxd-watch-1\n---\nSeen.\nfilm: [[Heat]]\n",
   "---\nfilm: \"[[Ran (1985)]]\"\nletterboxd_guid: letterboxd-review-3\n---\nSeen.\n",
   "Seen.\nfilm: Heat\nletterboxd_guid:\n"}

EditedVaults ==
  {<<[basename |-> generateFilename(DEFAULT_FILENAME_TEMPLATE, e), content |-> c]>> :
     e \in {x \in RssEntries : x.filmTitle = "Heat"}, c \in EditedNoteContents}

InitNotes ==
  /\ settings \in SettingsSet
  /\ vault \in EditedVaults
  /\ films = <<>>
  /\ now = 0
  /\ faults = 0
  /\ runs = 0
  /\ inv = [p \in Procs |-> Idle]
  /\ log = <<>>
  /\ mContent = ""
  /\ mEntry = CHOOSE e \in CsvEntries : TRUE
  /\ mOnce = ""
  /\ mTwice = ""
  /\ mpc = "off"
  /\ tTemplate = ""
  /\ tData = CHOOSE e \in CsvEntries : TRUE
  /\ tRendered = ""
  /\ tFilename = ""
  /\ tpc = "off"
  /\ calls = <<>>
  /\ notices = <<>>

\* the import command, one invocation at a time
NextNotes ==
  \/ ImportStart(1)
  \/ ImportValidate(1)
  \/ ImportTmdbIds(1)
  \/ ImportEntry(1)

SpecNotes == InitNotes /\ [][NextNotes]_vars

\* ------------------------------------------------------------------------
\* The merge: claims C1 to C4 and C10, under SpecMerge
\* ------------------------------------------------------------------------

C2_ImmutableLineKept ==
  (mpc # "start" /\ FrontmatterMatch(mContent).ok) =>
    LET before == Split(FrontmatterMatch(mContent).fm)
        after == Split(FrontmatterMatch(mOnce).fm)
        templateLines == Split(FrontmatterMatch(settings.noteTemplate).fm)
        Immutable(line) ==
          \E i \in 1..Len(templateLines) :
            LET t == Trim(templateLines[i])
            IN /\ Includes(t, ":")
               /\ VarMatch(t).ok
               /\ VarMatch(t).name \in IMMUTABLE_VARIABLES
               /\ StartsWithAt(line, LineKey(t) \o ":", 1)
               /\ Trim(Substring(line, Len(LineKey(t)) + 2)) # ""
    IN \A i \in 1..Len(before) :
         Immutable(before[i]) => \E j \in 1..Len(after) : after[j] = before[i]

\* C3. Targeted line substitution: a frontmatter line of the existing note
\* is a line of the merged frontmatter, unchanged, unless its key is a
\* templated key and its field qualifies for replacement by the record.
C3_OtherLinesKept ==
  (mpc # "start" /\ FrontmatterMatch(mContent).ok) =>
    LET before == Split(FrontmatterMatch(mContent).fm)
        after == Split(FrontmatterMatch(mOnce).fm)
        templateLines == Split(FrontmatterMatch(settings.noteTemplate).fm)
        Qualifies(line) ==
          \E i \in 1..Len(templateLines) :
            LET t == Trim(templateLines[i])
            IN /\ Includes(t, ":")
               /\ VarMatch(t).ok
               /\ StartsWithAt(line, LineKey(t) \o ":", 1)
               /\ shouldUpdateValue(VarMatch(t).name,
                                    NewValueOf(renderTemplate(t, mEntry)),
                                    Trim(Substring(line, Len(LineKey(t)) + 2)))
    IN \A i \in 1..Len(before) :
         ~Qualifies(before[i]) => \E j \in 1..Len(after) : after[j] = before[i]

C10_SentinelReplaced ==
  (mpc # "start" /\ FrontmatterMatch(mContent).ok) =>
    LET before == Split(FrontmatterMatch(mContent).fm)
        after == FrontmatterMatch(mOnce).fm
        templateLines == Split(FrontmatterMatch(settings.noteTemplate).fm)
    IN \A i \in 1..Len(templateLines), k \in 1..Len(before) :
         LET t == Trim(templateLines[i])
             head == LineKey(t) \o ":"
             newLine == renderTemplate(t, mEntry)
         IN (/\ Includes(t, ":")
             /\ VarMatch(t).ok
             /\ StartsWithAt(before[k], head, 1)
             /\ \A h \in 1..(k - 1) : ~StartsWithAt(before[h], head, 1)
             /\ Includes(before[k], TAGS_PENDING_FROM_RSS))
            => /\ Includes("\n" \o after \o "\n", "\n" \o newLine \o "\n")
               /\ ~Includes(newLine, TAGS_PENDING_FROM_RSS)

\* a value with the surrounding quotes, brackets and whitespace stripped
StrippedValue(value) == Strip(value, QuotesAndBrackets \cup WhiteSpace)

\* the rule for a mutable field: the incoming value is not empty, differs from
\* the existing one once both are stripped and, for a date variable, differs
\* from it in the first 10 characters
QualifiesForReplacement(varName, newValue, existingValue) ==
  /\ StrippedValue(newValue) # ""
  /\ StrippedValue(newValue) # StrippedValue(existingValue)
  /\ varName \in DATE_VARIABLES
       => Slice(StrippedValue(newValue), 1, 10) # Slice(StrippedValue(existingValue), 1, 10)

\* C11. Mutable field rule: the existing line of a mutable templated field
\* (the first line with that key) that holds no sentinel is a line of the
\* merged frontmatter, unchanged, unless the value rendered from the record
\* is not empty, differs from the existing value after stripping surrounding
\* quotes, brackets and whitespace and, for a date variable, differs from it
\* in its first 10 characters.
C11_MutableFieldRule ==
  (mpc # "start" /\ FrontmatterMatch(mContent).ok) =>
    LET before == Split(FrontmatterMatch(mContent).fm)
        after == Split(FrontmatterMatch(mOnce).fm)
        templateLines == Split(FrontmatterMatch(settings.noteTemplate).fm)
    IN \A i \in 1..Len(templateLines), k \in 1..Len(before) :
         LET t == Trim(templateLines[i])
             head == LineKey(t) \o ":"
         IN (/\ Includes(t, ":")
             /\ VarMatch(t).ok
             /\ VarMatch(t).name \notin IMMUTABLE_VARIABLES
             /\ StartsWithAt(before[k], head, 1)
             /\ \A h \in 1..(k - 1) : ~StartsWithAt(before[h], head, 1)
             /\ ~Includes(before[k], TAGS_PENDING_FROM_RSS)
             /\ ~QualifiesForReplacement(VarMatch(t).name,
                                         NewValueOf(renderTemplate(t, mEntry)),
                                         Substring(before[k], Len(head) + 1)))
            => \E j \in 1..Len(after) : after[j] = before[k]

\* the content does not begin with a delimiter line "---" that a later line
\* consisting solely of "---" closes
MalformedFrontmatter(content) ==
  ~(/\ Split(content)[1] = "---"
    /\ \E k \in 2..Len(Split(content)) : Split(content)[k] = "---")

\* C13. Malformed frontmatter is a no-op: the merge of any record into a
\* content whose frontmatter is malformed returns the content.
C13_MalformedIsNoOp ==
  (mpc # "start" /\ MalformedFrontmatter(mContent)) => mOnce = mContent

\* ------------------------------------------------------------------------
\* The two sync operations: claims C5 to C9, under Spec
\* ------------------------------------------------------------------------

\* no invocation is in progress
AllIdle == \A p \in Procs : inv[p].op = "idle"

\* a note matches a record by identifier
MatchesByGuid(e, note) == ~note.guid.isNull /\ note.guid.s # "" /\ note.guid.s = e.guid

\* a note matches a record by file name (the expected name or the pattern of
\* the file name template) and film title
MatchesByName(e, note) ==
  /\ \/ note.basename = generateFilename(settings.filenameTemplate, e)
     \/ RegexTest(filenameTemplateToRegex(settings.filenameTemplate), note.basename)
  /\ FilmMatch(note.content).ok
  /\ NormalizeTitle(FilmMatch(note.content).title) = NormalizeTitle(e.filmTitle)

\* the notes that match a record, as indices
MatchingNotes(e, notes) ==
  {i \in 1..Len(notes) : MatchesByGuid(e, notes[i]) \/ MatchesByName(e, notes[i])}

\* the records of a batch that more than one note matches, as indices
AmbiguousRecords(entries, notes) ==
  {k \in 1..Len(entries) : Cardinality(MatchingNotes(entries[k], notes)) > 1}

\* the message of the ambiguity error for a record and two file names
AmbiguityMessage(e, first, second) ==
  "Multiple matches for \"" \o e.filmTitle \o "\" (" \o e.watchedDate \o "): "
  \o first \o ", " \o second

\* C5. Validate-then-apply: while an import is matching its records the
\* folder is as the import found it, and the records are applied only when
\* none is ambiguous; an import of a batch with an ambiguous record leaves
\* every note as it was, creates none, and returns created = updated =
\* skipped = 0 with one error per ambiguous record.
C5_ValidateThenApply ==
  /\ \A p \in Procs :
       (inv[p].op = "importFromCSV" /\ inv[p].pc \in {"parse", "tmdb"})
         => vault = inv[p].before
  /\ \A p \in Procs :
       (inv[p].op = "importFromCSV" /\ inv[p].pc = "tmdb")
         => AmbiguousRecords(inv[p].input, getExistingNotes(inv[p].before, settings)) = {}
  /\ (AllIdle /\ Len(log) > 0 /\ log[Len(log)].op = "importFromCSV"
        /\ ~log[Len(log)].threw)
       => \A run \in {log[Len(log)]} :
          \A ambiguous \in {AmbiguousRecords(run.input,
                                             getExistingNotes(run.before, settings))} :
            ambiguous # {} =>
              /\ run.after = run.before
              /\ run.result.created = 0
              /\ run.result.updated = 0
              /\ run.result.skipped = 0
              /\ Len(run.result.errors) = Cardinality(ambiguous)

\* an import of a batch of which one record is ambiguous and another is not
\* has returned
C5_Witness ==
  /\ AllIdle /\ Len(log) > 0 /\ log[Len(log)].op = "importFromCSV"
  /\ ~log[Len(log)].threw
  /\ \E run \in {log[Len(log)]} :
     \E ambiguous \in {AmbiguousRecords(run.input,
                                        getExistingNotes(run.before, settings))} :
       /\ ambiguous # {}
       /\ Cardinality(ambiguous) < Len(run.input)
       /\ Len(run.result.errors) = Cardinality(ambiguous)
       /\ run.after = run.before

\* the note template writes the guid under the configured guid key
TemplateWritesGuid ==
  Includes(settings.noteTemplate, "\n" \o settings.guidFrontmatterKey \o ": {{guid}}\n")

\* two passes of syncDiary over one feed have returned one after the other,
\* the first without a creation error
TwoPasses ==
  /\ AllIdle /\ Len(log) >= 2
  /\ log[Len(log) - 1].op = "syncDiary" /\ log[Len(log)].op = "syncDiary"
  /\ log[Len(log) - 1].input = log[Len(log)].input
  /\ ~log[Len(log) - 1].threw /\ ~log[Len(log)].threw
  /\ log[Len(log) - 1].result.errors = 0
  /\ TemplateWritesGuid

\* C6. RSS deduplication across passes: the second of two passes over one
\* feed, the first without a creation error, creates no note and skips every
\* entry of the feed, that is as many as the first pass created or skipped;
\* it leaves the number of notes in the folder unchanged.
C6_DedupAcrossPasses ==
  TwoPasses =>
    /\ log[Len(log)].result.created = 0
    /\ log[Len(log)].result.skipped
         = log[Len(log) - 1].result.created + log[Len(log) - 1].result.skipped
    /\ Len(log[Len(log)].after) = Len(log[Len(log)].before)

\* C6 as the specification states it: the second pass skips as many entries
\* as the first pass created.
C6_SkippedEqualsCreated ==
  TwoPasses =>
    /\ log[Len(log)].result.created = 0
    /\ log[Len(log)].result.skipped = log[Len(log) - 1].result.created
    /\ Len(log[Len(log)].after) = Len(log[Len(log)].before)

\* two passes have returned, the first of which created a note and skipped
\* an entry
C6_Witness ==
  /\ TwoPasses
  /\ log[Len(log) - 1].result.created > 0
  /\ log[Len(log) - 1].result.skipped > 0
  /\ log[Len(log)].result.skipped = Len(log[Len(log)].input)

\* the records of a batch have pairwise distinct identifiers
DistinctGuids(entries) ==
  \A i, j \in 1..Len(entries) : entries[i].guid = entries[j].guid => i = j

\* C7. CSV re-import is a no-op: of two imports of one batch of records with
\* pairwise distinct identifiers, the first into an empty folder, with no
\* failure of the vault or of the parser, the first creates one note per
\* record and the second creates none, updates none and reports no error.
C7_ReimportNoOp ==
  (/\ AllIdle /\ Len(log) >= 2 /\ faults = 0
   /\ log[Len(log) - 1].op = "importFromCSV" /\ log[Len(log)].op = "importFromCSV"
   /\ log[Len(log) - 1].input = log[Len(log)].input
   /\ log[Len(log) - 1].before = <<>>
   /\ DistinctGuids(log[Len(log)].input))
    => /\ log[Len(log) - 1].result.created = Len(log[Len(log)].input)
       /\ log[Len(log)].result.created = 0
       /\ log[Len(log)].result.updated = 0
       /\ log[Len(log)].result.errors = <<>>

\* the value the note holds under watched_date, "" if none
WatchedDateOf(note) ==
  With(createFrontmatterKeyRegex(note.content, "watched_date"), LAMBDA m :
    IF m.ok THEN Trim(m.value) ELSE "")

\* the note belongs to another viewing of the record's film: it names the
\* film, its identifier is not empty and is not the record's, and its date is
\* not the record's
OtherViewing(e, note) ==
  /\ ~note.guid.isNull /\ note.guid.s # "" /\ note.guid.s # e.guid
  /\ FilmMatch(note.content).ok
  /\ NormalizeTitle(FilmMatch(note.content).title) = NormalizeTitle(e.filmTitle)
  /\ WatchedDateOf(note) # e.watchedDate

\* C8. Rewatch support: an import that reports no error, run with no failure
\* of the vault or of the parser, leaves the note of another viewing of a
\* record's film as it was and, when no note held the record's identifier,
\* leaves a note that holds it.
C8_OwnNotePerViewing ==
  (/\ AllIdle /\ Len(log) > 0 /\ faults = 0
   /\ log[Len(log)].op = "importFromCSV"
   /\ log[Len(log)].result.errors = <<>>)
    => \A run \in {log[Len(log)]} :
       \A notes \in {getExistingNotes(run.before, settings)} :
         \A k \in 1..Len(run.input), i \in 1..Len(notes) :
           (/\ OtherViewing(run.input[k], notes[i])
            /\ \A j \in 1..Len(notes) : ~MatchesByGuid(run.input[k], notes[j]))
             => /\ run.after[i] = run.before[i]
                /\ \E j \in 1..Len(run.after) :
                     MatchesByGuid(run.input[k], ExistingNote(run.after[j], settings))

\* C9. Ambiguity detection: for a record of the batch an import is about to
\* match and the notes of the folder, findMatchingNote returns null when no
\* note matches, the note when exactly one matches, and fails with the error
\* that names the two notes' file names when exactly two match.
C9_AmbiguityDetected ==
  \A p \in Procs :
    (inv[p].op = "importFromCSV" /\ inv[p].pc = "parse" /\ ~inv[p].threw)
      => \A notes \in {getExistingNotes(vault, settings)} :
         \A k \in 1..Len(inv[p].input) :
         \A e \in {inv[p].input[k]} :
         \A r \in {findMatchingNote(e, notes,
                                    filenameTemplateToRegex(settings.filenameTemplate),
                                    settings)} :
         \A M \in {MatchingNotes(e, notes)} :
           /\ M = {} => (~r.threw /\ ~r.found)
           /\ Cardinality(M) = 1 => (~r.threw /\ r.found /\ r.index \in M)
           /\ \A i, j \in M :
                (i < j /\ M = {i, j})
                  => /\ r.threw
                     /\ r.message
                          = AmbiguityMessage(e, notes[i].basename, notes[j].basename)

\* an import is about to match a record that two notes match, one by
\* identifier and the other by file name and title only
C9_Witness ==
  \E p \in Procs :
    /\ inv[p].op = "importFromCSV" /\ inv[p].pc = "parse" /\ ~inv[p].threw
    /\ \E notes \in {getExistingNotes(vault, settings)} :
       \E k \in 1..Len(inv[p].input) :
       \E i, j \in 1..Len(notes) :
         /\ MatchingNotes(inv[p].input[k], notes) = {i, j}
         /\ MatchesByGuid(inv[p].input[k], notes[i])
         /\ ~MatchesByGuid(inv[p].input[k], notes[j])
         /\ MatchesByName(inv[p].input[k], notes[j])
         /\ findMatchingNote(inv[p].input[k], notes,
                             filenameTemplateToRegex(settings.filenameTemplate),
                             settings).threw

\* ------------------------------------------------------------------------
\* The counts and the failures of an invocation: claims C12, C14 and C15,
\* under Spec
\* ------------------------------------------------------------------------

\* no templated line of the frontmatter of the content qualifies for
\* replacement by the record
NoFieldQualifies(content, entry) ==
  FrontmatterMatch(content).ok /\ FrontmatterMatch(settings.noteTemplate).ok =>
    \A templateLine \in
         {Trim(Split(FrontmatterMatch(settings.noteTemplate).fm)[i]) :
            i \in 1..Len(Split(FrontmatterMatch(settings.noteTemplate).fm))} :
      (Includes(templateLine, ":") /\ VarMatch(templateLine).ok) =>
        \A existingMatch \in {LineRegexMatch(FrontmatterMatch(content).fm, templateLine)} :
          existingMatch.ok =>
            ~shouldUpdateValue(VarMatch(templateLine).name,
                               NewValueOf(renderTemplate(templateLine, entry)),
                               existingMatch.value)

\* C12. No-op merge: a turn of the import loop counts its record as updated
\* only if the content of a note changed, and as skipped only if the folder
\* is as it was; when the record resolves to a note in which no field
\* qualifies for replacement and vault.process does not fail, the folder is
\* left as it was (the merge result is the content) and the record is counted
\* as skipped, not as updated.
C12_NoOpMerge ==
  [][(inv[1].op = "importFromCSV" /\ inv[1].pc = "loop") =>
       \A r \in {inv[1].result} :
       \A r2 \in {IF inv'[1].op = "idle" THEN log'[Len(log')].result ELSE inv'[1].result} :
       \A entry \in {inv[1].entries[inv[1].idx]} :
       \A m \in {findMatchingNote(entry, inv[1].existingNotes,
                                  filenameTemplateToRegex(settings.filenameTemplate),
                                  settings)} :
         /\ r2.updated = r.updated + 1 =>
              /\ Len(vault') = Len(vault)
              /\ \E i \in 1..Len(vault) : vault'[i].content # vault[i].content
         /\ r2.skipped = r.skipped + 1 => vault' = vault
         /\ (/\ ~m.threw /\ m.found /\ faults' = faults
             /\ HasFile(vault, inv[1].existingNotes[m.index].basename)
             /\ NoFieldQualifies(
                  vault[FileIndex(vault, inv[1].existingNotes[m.index].basename)].content,
                  entry))
              => /\ vault' = vault
                 /\ r2.skipped = r.skipped + 1
                 /\ r2.updated = r.updated
     ]_vars

\* an import has returned whose every record resolved to a note in which no
\* field qualified: all are counted as skipped and the folder is as it was
C12_Witness ==
  /\ AllIdle /\ Len(log) > 0
  /\ log[Len(log)].op = "importFromCSV" /\ ~log[Len(log)].threw
  /\ Len(log[Len(log)].input) > 0
  /\ log[Len(log)].result.skipped = Len(log[Len(log)].input)
  /\ log[Len(log)].result.updated = 0
  /\ log[Len(log)].after = log[Len(log)].before
  /\ \A k \in 1..Len(log[Len(log)].input) :
     \E i \in 1..Len(log[Len(log)].before) :
       /\ MatchesByGuid(log[Len(log)].input[k],
                        ExistingNote(log[Len(log)].before[i], settings))
       /\ NoFieldQualifies(log[Len(log)].before[i].content, log[Len(log)].input[k])

\* C14. Per-record failure isolation: every turn of the import loop accounts
\* for exactly one record, as created, updated, skipped or failed, and goes
\* on to the next record or, after the last, returns; a turn in which
\* vault.create or vault.process fails leaves the folder as the earlier turns
\* left it, keeps the counts and the earlier errors, and appends one error that
\* begins with the record's title.
C14_FailureIsolated ==
  [][(inv[1].op = "importFromCSV" /\ inv[1].pc = "loop") =>
       \A r \in {inv[1].result} :
       \A r2 \in {IF inv'[1].op = "idle" THEN log'[Len(log')].result ELSE inv'[1].result} :
       \A entry \in {inv[1].entries[inv[1].idx]} :
         /\ r2.created + r2.updated + r2.skipped + Len(r2.errors)
              = r.created + r.updated + r.skipped + Len(r.errors) + 1
         /\ IF inv[1].idx < Len(inv[1].entries)
            THEN /\ inv'[1].op = "importFromCSV" /\ inv'[1].pc = "loop"
                 /\ inv'[1].idx = inv[1].idx + 1
                 /\ inv'[1].entries = inv[1].entries
            ELSE /\ inv'[1].op = "idle"
                 /\ Len(log') = Len(log) + 1
                 /\ log'[Len(log')].after = vault'
         /\ faults' # faults =>
              /\ vault' = vault
              /\ r2.created = r.created /\ r2.updated = r.updated
              /\ r2.skipped = r.skipped
              /\ Len(r2.errors) = Len(r.errors) + 1
              /\ SubSeq(r2.errors, 1, Len(r.errors)) = r.errors
              /\ StartsWithAt(r2.errors[Len(r2.errors)], entry.filmTitle \o ": ", 1)
     ]_vars

\* an import of two records of different films has returned: the note of one
\* record could not be written, which is the one error, and the other record
\* has its note
C14_Witness ==
  /\ AllIdle /\ Len(log) > 0 /\ faults > 0
  /\ log[Len(log)].op = "importFromCSV" /\ ~log[Len(log)].threw
  /\ \E run \in {log[Len(log)]} :
       /\ Len(run.input) = 2
       /\ run.input[1].filmTitle # run.input[2].filmTitle
       /\ Len(run.result.errors) = 1
       /\ run.result.created = 1
       /\ Len(run.after) = Len(run.before) + 1
       /\ \E k \in 1..2 :
            StartsWithAt(run.result.errors[1], run.input[k].filmTitle \o ": ", 1)

\* C15. Batch failure keeps partial counts: an invocation whose record source
\* fails returns; it leaves the folder as it was, its counts are those
\* accumulated so far, which is none, and its result records the failure as
\* one error.
C15_BatchFailureRecorded ==
  (AllIdle /\ Len(log) > 0 /\ log[Len(log)].threw) =>
    \A run \in {log[Len(log)]} :
      /\ run.after = run.before
      /\ run.result.created = 0
      /\ run.result.skipped = 0
      /\ run.op = "syncDiary" => run.result.errors = 1
      /\ run.op = "importFromCSV" =>
           (run.result.updated = 0 /\ Len(run.result.errors) = 1)

\* ------------------------------------------------------------------------
\* The film ids an import claims: claim C17, under Spec
\* ------------------------------------------------------------------------

NoDuplicates(seq) == \A a, b \in 1..Len(seq) : seq[a] = seq[b] => a = b

\* C17. Claimed film identifiers: after every turn of the import loop the
\* newTmdbIds of the result holds no id twice and no id a Film note held when
\* the import read the Film folder; a turn leaves the list as it was or appends
\* the id of its record, which was not in the set of claimed ids before; the
\* set of claimed ids only grows during the batch and holds every id of the
\* list, so several viewings of one film claim its id once.
C17_ClaimedOnce ==
  [][(inv[1].op = "importFromCSV" /\ inv[1].pc = "loop") =>
       \A held \in {ExistingIdsOf(getExistingFilmNotes(films, settings))} :
       \A old \in {inv[1].result.newTmdbIds} :
       \A ids \in {IF inv'[1].op = "idle" THEN log'[Len(log')].result.newTmdbIds
                   ELSE inv'[1].result.newTmdbIds} :
       \A tmdbId \in {inv[1].entries[inv[1].idx].tmdbId} :
         /\ NoDuplicates(ids)
         /\ \A k \in 1..Len(ids) : ids[k] \notin held
         /\ \/ ids = old
            \/ ids = Append(old, tmdbId) /\ tmdbId \notin inv[1].existingTmdbIds
         /\ inv'[1].op = "importFromCSV" =>
              /\ inv[1].existingTmdbIds \subseteq inv'[1].existingTmdbIds
              /\ \A k \in 1..Len(ids) : ids[k] \in inv'[1].existingTmdbIds
     ]_vars

\* an import of two viewings of one film has returned without an error, the
\* Film folder holding no note of the film: its id is claimed once
C17_Witness ==
  /\ AllIdle /\ Len(log) > 0
  /\ log[Len(log)].op = "importFromCSV" /\ ~log[Len(log)].threw
  /\ Len(log[Len(log)].input) = 2
  /\ log[Len(log)].input[1].tmdbId = log[Len(log)].input[2].tmdbId
  /\ log[Len(log)].input[1].guid # log[Len(log)].input[2].guid
  /\ Len(log[Len(log)].result.errors) = 0
  /\ log[Len(log)].result.newTmdbIds = <<log[Len(log)].input[1].tmdbId>>

\* ------------------------------------------------------------------------
\* The Film notes: claims C16 and C18, under SpecFilms
\* ------------------------------------------------------------------------

\* C16. Missing configuration aborts before any processing: a syncDiary
\* without a user name and a syncFilmsFromTMDB without a token go from their
\* call straight to their return, with no fetch and no read of a folder in
\* between; they and a syncSingleFilm without a token throw nothing, leave the
\* folder they write to as it was and return the all-zero result (false for
\* syncSingleFilm).
C16_MissingConfigurationAborts ==
  /\ (settings.username = "" /\ inv[1].op = "syncDiary") =>
       inv[1].pc = "return" /\ inv[1].result = SyncResult /\ vault = inv[1].before
  /\ (settings.tmdbApiKey = "" /\ inv[1].op = "syncFilmsFromTMDB") =>
       inv[1].pc = "return" /\ inv[1].result = TMDBSyncResult /\ films = inv[1].before
  /\ \A i \in 1..Len(log) :
       /\ (settings.username = "" /\ log[i].op = "syncDiary") =>
            log[i].result = SyncResult /\ log[i].after = log[i].before /\ ~log[i].threw
       /\ (settings.tmdbApiKey = "" /\ log[i].op = "syncFilmsFromTMDB") =>
            log[i].result = TMDBSyncResult /\ log[i].after = log[i].before /\ ~log[i].threw
       /\ (settings.tmdbApiKey = "" /\ log[i].op = "syncSingleFilm") =>
            log[i].result = FALSE /\ log[i].after = log[i].before /\ ~log[i].threw

\* without a user name and without a token, a syncDiary whose feed holds an
\* entry and a syncFilmsFromTMDB handed a valid id have returned
C16_Witness ==
  /\ settings.username = "" /\ settings.tmdbApiKey = ""
  /\ AllIdle /\ Len(log) = 2
  /\ log[1].op = "syncDiary" /\ Len(log[1].input) > 0
  /\ log[2].op = "syncFilmsFromTMDB" /\ Len(ValidIds(log[2].input)) > 0
  /\ log[2].result = TMDBSyncResult

\* no two Film notes of files hold the same id
FilmIdsDistinct(files) ==
  \A i, j \in 1..Len(files) :
    \A a \in {createFrontmatterKeyRegex(files[i].content, settings.tmdbIdFrontmatterKey)},
       b \in {createFrontmatterKeyRegex(files[j].content, settings.tmdbIdFrontmatterKey)} :
      (a.ok /\ b.ok /\ Trim(a.value) = Trim(b.value)) => i = j

\* the Film template writes the id under the configured id key
TemplateWritesTmdbId ==
  Includes(settings.tmdbNoteTemplate,
           "\n" \o settings.tmdbIdFrontmatterKey \o ": {{tmdbId}}\n")

\* every run of syncFilmsFromTMDB created as many Film notes as it counted, at
\* most one for each distinct valid id of its list
OnePerDistinctId ==
  \A i \in 1..Len(log) :
    log[i].op = "syncFilmsFromTMDB" =>
      /\ Len(log[i].after) = Len(log[i].before) + log[i].result.created
      /\ log[i].result.created
           <= Cardinality({log[i].input[k] : k \in 1..Len(log[i].input)} \ {""})

\* two runs of syncFilmsFromTMDB over one list have returned one after the
\* other, neither with a failure, fetch errors included
TwoFilmRuns ==
  /\ AllIdle /\ Len(log) >= 2
  /\ log[Len(log) - 1].op = "syncFilmsFromTMDB" /\ log[Len(log)].op = "syncFilmsFromTMDB"
  /\ log[Len(log) - 1].input = log[Len(log)].input
  /\ ~log[Len(log) - 1].threw /\ ~log[Len(log)].threw
  /\ log[Len(log) - 1].result.errors = 0 /\ log[Len(log)].result.errors = 0
  /\ settings.tmdbApiKey # ""
  /\ TemplateWritesTmdbId

Sanitized(s) ==
  /\ \A i \in 1..Len(s) : At(s, i) \notin InvalidFilenameChars
  /\ s # "" => /\ At(s, 1) \notin WhiteSpace \cup {"."}
               /\ At(s, Len(s)) \notin WhiteSpace \cup {"."}

\* C19. Filename sanitization: for every file name template and every record,
\* the output of generateFilename holds none of / \ : * ? " < > | and neither
\* starts nor ends with a dot or with white space.
C19_FilenameSanitized == tpc = "named" => Sanitized(tFilename)

\* the block of name is kept by the rule of the claim: the name is in the
\* accessor table and its value is truthy
KeptByAccessor(name, data) ==
  name \in AccessorNamesOf(data) /\ isTruthy(Accessors(name, data))

\* C20. Conditional blocks on absent names: for a template
\* PRE{{#if name}}BODY{{/if}}POST, render returns what substituting the
\* variables of PRE BODY POST returns when name is in the accessor table with a
\* truthy value, and of PRE POST otherwise, also when name is in no accessor
\* table.
C20_ConditionalResolved ==
  tpc # "start" =>
    \A pre \in CondPres, name \in CondNames, body \in CondBodies, post \in CondPosts :
      tTemplate = CondTemplate(pre, name, body, post) =>
        tRendered = substituteVariables(
                      pre \o (IF KeptByAccessor(name, tData) THEN body ELSE "") \o post,
                      tData)

\* the names of config.specialHandlers: castWithRoles for tmdbEngine, none
\* for letterboxdEngine
ConfiguredHandlers(data) == IF IsMovie(data) THEN {"castWithRoles"} ELSE {}

\* C21. Unknown variables pass through: for a template PRE{{name params}}POST
\* render leaves the template as it is when name is in neither the accessor
\* table nor the special-handler table, and raises no error; when name is in
\* the accessor table the formatted value stands in place of the reference,
\* verbatim, also when it holds the text of a reference.
C21_UnknownPassThrough ==
  tpc # "start" =>
    \A pre \in VarPres, name \in VarNames, params \in VarParams, post \in VarPosts :
      tTemplate = VarTemplate(pre, name, params, post) =>
        /\ name \notin AccessorNamesOf(tData) \cup ConfiguredHandlers(tData) =>
             tRendered = tTemplate
        /\ name \in AccessorNamesOf(tData) =>
             tRendered = pre \o formatValue(Accessors(name, tData), parseParams(params))
                             \o post

\* the formatting of a value by its type
FormattedByType(value, params) ==
  CASE value.t = "array" -> formatArray(value.a, params)
    [] value.t = "number" -> NumToString(value.n)
    [] value.t = "boolean" -> (IF value.b THEN "true" ELSE "false")
    [] OTHER -> formatString(value.s, params)

\* the rule of C22 as stated: the formatted result decides
FormatThenSkip(value, params) ==
  IF FormattedByType(value, params) = "" /\ params.skipEmpty THEN ""
  ELSE params.prefix \o FormattedByType(value, params) \o params.suffix

\* the reference of the template is PRE{{name params}}POST with an accessor
\* name, and it was rendered
RenderedAccessor(pre, name, params, post) ==
  /\ tpc # "start"
  /\ tTemplate = VarTemplate(pre, name, params, post)
  /\ name \in AccessorNamesOf(tData)

\* C22. skipEmpty with prefix/suffix: under skipEmpty an empty string and an
\* empty array give the empty string, without prefix or suffix and whatever
\* their formatting would be; every other value is formatted by its type, and
\* the result is the empty string without prefix or suffix when the formatted
\* result is empty and skipEmpty is set, and prefix + formatted result + suffix
\* in every other case. Numbers and booleans are never empty: 0 and false give
\* "0" and "false" under skipEmpty.
C22_SkipEmpty ==
  \A pre \in VarPres, name \in VarNames, params \in VarParams, post \in VarPosts :
    RenderedAccessor(pre, name, params, post) =>
      \A value \in {Accessors(name, tData)}, ps \in {parseParams(params)} :
        /\ tRendered = pre \o (IF ps.skipEmpty /\ isEmpty(value) THEN ""
                               ELSE FormatThenSkip(value, ps)) \o post
        /\ (ps.skipEmpty /\ value.t = "number" /\ value.n = 0) =>
             tRendered = pre \o ps.prefix \o "0" \o ps.suffix \o post
        /\ (ps.skipEmpty /\ value.t = "boolean" /\ ~value.b) =>
             tRendered = pre \o ps.prefix \o "false" \o ps.suffix \o post

\* C22 as stated: only the formatted result is tested for emptiness
C22_FormattedResultDecides ==
  \A pre \in VarPres, name \in VarNames, params \in VarParams, post \in VarPosts :
    RenderedAccessor(pre, name, params, post) =>
      tRendered = pre \o FormatThenSkip(Accessors(name, tData), parseParams(params)) \o post

\* an empty review was rendered under yaml, skipEmpty and a prefix: its
\* formatting is a pair of quotes, and the result is the empty string
C22_Witness ==
  /\ RenderedAccessor("", "review", " yaml=true skipEmpty=true prefix=\"[\"", "")
  /\ tData.review = ""
  /\ FormattedByType(Str(""), parseParams(" yaml=true skipEmpty=true prefix=\"[\"")) # ""
  /\ tRendered = ""

\* C26. Filename rendering refines rendering: for every template and record
\* generateFilename returns render's output with the characters
\* / \ : * ? " < > | removed, then trimmed, then without its leading and
\* trailing dots, so that a conditional block is resolved as render resolves
\* it.
C26_FilenameRefinesRender ==
  tpc = "named" => tFilename = StripDots(Trim(RemoveClass(tRendered, InvalidFilenameChars)))

\* ------------------------------------------------------------------------
\* The silent notification level
\* ------------------------------------------------------------------------

\* C23: with the notification level "silent", notify shows no notification,
\* whatever the type of the message (progress, result or error).
C23_SilentShowsNothing == settings.notificationLevel = "silent" => notices = <<>>

\* with the level "silent", the messages shown are the error messages
C23_SilentShowsErrors ==
  settings.notificationLevel = "silent"
    => notices = [i \in 1..Len(SelectSeq(calls, LAMBDA c : c.type = "error")) |->
                    SelectSeq(calls, LAMBDA c : c.type = "error")[i].message]

\* ------------------------------------------------------------------------
\* The matcher and the frontmatter
\* ------------------------------------------------------------------------

\* the value of the line "key: value" of a block of lines, trimmed: [isNull, s]
LineValueOf(block, key) ==
  With(NextLineWith(block, key \o ":", 1), LAMBDA p :
    IF p = 0 THEN NoGuid
    ELSE With(Trim(Slice(block, p + Len(key) + 1,
                         SkipUntilClass(block, p + Len(key) + 1, LineTerminators) - 1)),
              LAMBDA v : IF v = "" THEN NoGuid ELSE [isNull |-> FALSE, s |-> v]))

\* the value of the key's line inside the frontmatter block of a note
FrontmatterValueOf(content, key) ==
  With(FrontmatterMatch(content), LAMBDA m :
    IF m.ok THEN LineValueOf(m.fm, key) ELSE NoGuid)

\* the film title the frontmatter of a note records equals the record's title
FrontmatterTitleMatches(content, entry) ==
  With(FrontmatterMatch(content), LAMBDA m :
    m.ok /\ TitleMatches(FilmMatch(m.fm), entry))

\* C24: findMatchingNote matches a note whose identifier differs from the
\* record's only if its base file name is the expected one or fits the
\* template's pattern and the film title in its frontmatter equals the
\* record's title after normalisation; with another title or no title line in
\* the frontmatter the note is never matched.
C24_FilenameRuleNeedsTitle ==
  \A p \in Procs :
    inv[p].op = "importFromCSV" /\ inv[p].pc = "loop" =>
      \A entry \in {inv[p].entries[inv[p].idx]} :
        \A i \in {j \in 1..Len(inv[p].existingNotes) :
                   NoteMatches(entry, inv[p].existingNotes[j],
                               filenameTemplateToRegex(settings.filenameTemplate),
                               settings)} :
          \A note \in {inv[p].existingNotes[i]} :
            \/ (~note.guid.isNull /\ note.guid.s = entry.guid)
            \/ /\ \/ note.basename = generateFilename(settings.filenameTemplate, entry)
                  \/ RegexTest(filenameTemplateToRegex(settings.filenameTemplate),
                               note.basename)
               /\ FrontmatterTitleMatches(note.content, entry)

\* C25: the identifier getExistingNotes records for a note is the value on the
\* line of the configured key inside the frontmatter block; a note without
\* such a value has no identifier.
C25_IdentifierFromFrontmatter ==
  \A p \in Procs :
    inv[p].op = "importFromCSV" /\ inv[p].pc \in {"tmdb", "loop"} =>
      \A i \in 1..Len(inv[p].existingNotes) :
        inv[p].existingNotes[i].guid
          = FrontmatterValueOf(inv[p].existingNotes[i].content, settings.guidFrontmatterKey)

\* ------------------------------------------------------------------------
\* Result accounting
\* ------------------------------------------------------------------------

\* the records an import result accounts for, the entries a sync result does
ImportCounted(result) ==
  result.created + result.updated + result.skipped + Len(result.errors)

SyncCounted(result) == result.created + result.skipped + result.errors

\* the feed entries syncDiary considers
Considered(feed) ==
  IF settings.syncReviewsOnly THEN SelectSeq(feed, LAMBDA e : Len(e.review) > 0) ELSE feed

\* the batch of a returned import passed validation
PassedValidation(rec) ==
  validateCSVImport(rec.input, getExistingNotes(rec.before, settings),
                    filenameTemplateToRegex(settings.filenameTemplate), settings) = <<>>

\* C27: an import that passed validation and threw nothing outside its loop
\* returns created + updated + skipped + number of errors = number of records
\* of the batch, and a sync returns created + skipped + errors = number of
\* feed entries considered; inside either loop the records handled so far are
\* each counted once.
C27_ResultAccounting ==
  /\ \A i \in 1..Len(log) :
        /\ log[i].op = "importFromCSV" /\ ~log[i].threw /\ PassedValidation(log[i])
             => ImportCounted(log[i].result) = Len(log[i].input)
        /\ log[i].op = "syncDiary" /\ ~log[i].threw /\ settings.username # ""
             => SyncCounted(log[i].result) = Len(Considered(log[i].input))
  /\ \A p \in Procs :
        /\ inv[p].op = "importFromCSV" /\ inv[p].pc = "loop"
             => ImportCounted(inv[p].result) = inv[p].idx - 1
        /\ inv[p].op = "syncDiary" /\ inv[p].pc = "loop"
             => SyncCounted(inv[p].result) = inv[p].idx - 1

\* an import of two records returned with one created and one failed, and a
\* sync of two entries returned with one of them skipped or failed
C27_Witness ==
  /\ \E i \in 1..Len(log) :
        /\ log[i].op = "importFromCSV" /\ ~log[i].threw /\ PassedValidation(log[i])
        /\ Len(log[i].input) = 2
        /\ log[i].result.created = 1 /\ Len(log[i].result.errors) = 1
  /\ \E i \in 1..Len(log) :
        /\ log[i].op = "syncDiary" /\ ~log[i].threw
        /\ Len(log[i].input) = 2
        /\ log[i].result.created = 2

\* ------------------------------------------------------------------------
\* The two phases of the import
\* ------------------------------------------------------------------------

\* what validation found for a record: its match against the notes of the
\* folder as they were before validation
ValidatedMatch(p, entry) ==
  findMatchingNote(entry, getExistingNotes(inv[p].before, settings),
                   filenameTemplateToRegex(settings.filenameTemplate), settings)

\* the result of the invocation of caller 1 after a step
ResultAfter == IF inv[1].op = "idle" THEN log[Len(log)].result ELSE inv[1].result

\* C30: each turn of the apply loop acts on the note validation found for the
\* record in the notes read before validation: it creates a note only when
\* validation found none, it updates or leaves only the file of the note
\* validation found, and the error it records, if any, is no ambiguity,
\* whatever the earlier records of the batch created or updated.
C30_ApplyAgreesWithValidation ==
  [][inv[1].op = "importFromCSV" /\ inv[1].pc = "loop" =>
       \A entry \in {inv[1].entries[inv[1].idx]} :
       \A v \in {ValidatedMatch(1, entry)} :
         /\ inv[1].existingNotes = getExistingNotes(inv[1].before, settings)
         /\ ~v.threw
         /\ ResultAfter'.created > inv[1].result.created =>
               ~v.found /\ Len(vault') = Len(vault) + 1
                        /\ SubSeq(vault', 1, Len(vault)) = vault
         /\ \/ ResultAfter'.updated > inv[1].result.updated
            \/ ResultAfter'.skipped > inv[1].result.skipped
            => /\ v.found
               /\ Len(vault') = Len(vault)
               /\ \A i \in 1..Len(vault) :
                     vault'[i] # vault[i] =>
                       vault[i].basename
                         = getExistingNotes(inv[1].before, settings)[v.index].basename
         /\ Len(ResultAfter'.errors) > Len(inv[1].result.errors) =>
               /\ vault' = vault
               /\ IndexOf(ResultAfter'.errors[Len(ResultAfter'.errors)],
                          "Multiple matches") = 0]_vars

\* a batch of two viewings of Heat was applied to an empty folder, each
\* creating its note, and the second viewing would match the note of the first
\* in the folder as the first left it
C30_Witness ==
  \E i \in 1..Len(log) :
    /\ log[i].op = "importFromCSV" /\ ~log[i].threw
    /\ log[i].before = <<>> /\ Len(log[i].input) = 2
    /\ log[i].result.created = 2
    /\ findMatchingNote(log[i].input[2],
                        getExistingNotes(SubSeq(log[i].after, 1, 1), settings),
                        filenameTemplateToRegex(settings.filenameTemplate), settings).found

\* ------------------------------------------------------------------------
\* Creation and the files that exist
\* ------------------------------------------------------------------------

\* files2 is files1, or files1 followed by one new file under a free path
OnlyAdds(files1, files2) ==
  /\ Len(files2) \in {Len(files1), Len(files1) + 1}
  /\ SubSeq(files2, 1, Len(files1)) = files1
  /\ Len(files2) = Len(files1) + 1 => ~HasFile(files1, files2[Len(files2)].basename)

Added(files1, files2) == Len(files2) = Len(files1) + 1

Suffixed(filename, suffix) == filename \o " (" \o suffix \o ")"

\* caller 1 is about to call createNote for the entry its loop is at
CreatesNote ==
  /\ inv[1].op = "syncDiary" /\ inv[1].pc = "loop"
  /\ inv[1].entries[inv[1].idx].guid \notin inv[1].existingGuids

\* the file name createNote renders for that entry
RenderedName == generateFilename(settings.filenameTemplate, inv[1].entries[inv[1].idx])

\* the file createFilmNote added is named after one of the movies: by its
\* rendered file name when that was free, by the name with its id otherwise
FilmNamed(basename) ==
  \E m \in TmdbMovies :
    \E name \in {generateTMDBFilename(settings.tmdbFilenameTemplate, m)} :
      basename = IF HasFile(films, name) THEN Suffixed(name, NumToString(m.tmdbId))
                 ELSE name

\* no step writes to the path of an existing file or changes one
NeverOverwrites ==
  /\ OnlyAdds(vault, vault')
  /\ OnlyAdds(films, films')
  /\ Added(films, films') => FilmNamed(films'[Len(films')].basename)
  /\ Added(vault, vault') =>
        /\ CreatesNote
        /\ vault'[Len(vault')].basename =
              IF HasFile(vault, RenderedName)
              THEN Suffixed(RenderedName, NumToString(now')) ELSE RenderedName

FeedsDistinct ==
  /\ \A i \in 1..Len(log) : DistinctGuids(log[i].input)
  /\ \A p \in Procs : inv[p].op # "idle" => DistinctGuids(inv[p].input)

\* the notes of the folder that carry the guid
NotesOf(guid) ==
  {i \in 1..Len(vault) :
     \A n \in {ExistingNote(vault[i], settings)} : ~n.guid.isNull /\ n.guid.s = guid}

\* C28: whatever the interleaving of two syncDiary invocations on the same
\* feed, the folder holds at most one note per entry guid.
C28_OneNotePerGuid ==
  FeedsDistinct => \A e \in RssEntries : Cardinality(NotesOf(e.guid)) <= 1

====
